---- MODULE Spec2Model ----
(***************************************************************************)
(* Image text-translation pipeline of MTranServer:                         *)
(*   src/src/services/image.ts  translateImage, extractTextFromImage,      *)
(*                              preprocessImage, translateBlocksParallel   *)
(*   src/src/ocr/tesseract.ts   mapLanguage, initWorker, recognizeImage    *)
(*                                                                         *)
(* Strings the code trims or measures are sequences of one-character       *)
(* strings.  A scale factor [num, den] is the double num / den; doubles    *)
(* are computed bit for bit.  Asynchronous code is cut at its await        *)
(* points: one action is the code that runs from one suspension to the     *)
(* next.                                                                   *)
(***************************************************************************)
EXTENDS Integers, Sequences, FiniteSets, TLC

\* ------------------------------------------------------------------------
\* Bounds of the model
\* ------------------------------------------------------------------------

\* longest block sequence handed to translateBlocksParallel
MaxBlocks == 11

\* number of recognizeImage calls, all of which may overlap
MaxCalls == 3

\* longest image side handed to preprocessImage on its own
MaxSide == 6000

\* every text length up to this one is among the getCacheKey arguments
MaxShortText == 40

\* number of getCacheKey calls made with the same arguments
MaxKeyCalls == 2

\* largest configured cache size
MaxCacheSize == 2

\* number of readCache and writeCache calls in a run
MaxCacheOps == 3

\* longest run of translated texts handed to the renderer, in characters
MaxTextLen == 12

\* ------------------------------------------------------------------------
\* Program constants
\* ------------------------------------------------------------------------

MAX_IMAGE_DIMENSION == 2000

MAX_CONCURRENT_TRANSLATIONS == 10

\* Math.max(12, ...) floor of the estimated font size
MIN_OCR_FONT_SIZE == 12

\* ------------------------------------------------------------------------
\* Arithmetic
\* ------------------------------------------------------------------------

Max(a, b) == IF a >= b THEN a ELSE b

Min(a, b) == IF a <= b THEN a ELSE b

\* Math.round(num / den) for den > 0: the nearest integer, ties upwards
Round(num, den) == (2 * num + den) \div (2 * den)

\* ------------------------------------------------------------------------
\* IEEE 754 double arithmetic, as JavaScript numbers have it
\* ------------------------------------------------------------------------
\* A natural number of any size is the sequence of its digits in base 2^14,
\* lowest first, with no leading zero digit (0 is the empty sequence).  A
\* finite double >= 0 is [m, e], the number m * 2^e, with 2^52 <= m < 2^53,
\* or m = 0 and e = 0.  The values of the program are far from overflow and
\* from the subnormal range.

LimbBase == 2^14

RECURSIVE NatOf(_)
\* the natural number n < 2^31
NatOf(n) == IF n = 0 THEN <<>> ELSE <<n % LimbBase>> \o NatOf(n \div LimbBase)

RECURSIVE NatToInt(_)
\* the value of a natural number below 2^31
NatToInt(a) == IF a = <<>> THEN 0 ELSE a[1] + LimbBase * NatToInt(Tail(a))

RECURSIVE NatNorm(_)
\* without leading zero digits
NatNorm(a) ==
  IF a # <<>> /\ a[Len(a)] = 0 THEN NatNorm(SubSeq(a, 1, Len(a) - 1)) ELSE a

\* a < b
NatLess(a, b) ==
  IF Len(a) # Len(b) THEN Len(a) < Len(b)
  ELSE \E k \in 1..Len(a) :
         /\ a[k] < b[k]
         /\ \A j \in (k + 1)..Len(a) : a[j] = b[j]

RECURSIVE NatAddCarry(_, _, _)
NatAddCarry(a, b, c) ==
  IF a = <<>> /\ b = <<>> THEN (IF c = 0 THEN <<>> ELSE <<c>>)
  ELSE LET x == (IF a = <<>> THEN 0 ELSE a[1])
                  + (IF b = <<>> THEN 0 ELSE b[1]) + c
       IN <<x % LimbBase>>
            \o NatAddCarry(IF a = <<>> THEN a ELSE Tail(a),
                           IF b = <<>> THEN b ELSE Tail(b), x \div LimbBase)

\* a + b
NatAdd(a, b) == NatAddCarry(a, b, 0)

RECURSIVE NatSubBorrow(_, _, _)
NatSubBorrow(a, b, c) ==
  IF a = <<>> THEN <<>>
  ELSE LET x == a[1] - (IF b = <<>> THEN 0 ELSE b[1]) - c
       IN <<(x + LimbBase) % LimbBase>>
            \o NatSubBorrow(Tail(a), IF b = <<>> THEN b ELSE Tail(b),
                            IF x < 0 THEN 1 ELSE 0)

\* a - b for a >= b
NatSub(a, b) == NatNorm(NatSubBorrow(a, b, 0))

RECURSIVE NatMulLimb(_, _, _)
\* a * x + c for a digit x
NatMulLimb(a, x, c) ==
  IF a = <<>> THEN (IF c = 0 THEN <<>> ELSE <<c>>)
  ELSE LET y == a[1] * x + c
       IN <<y % LimbBase>> \o NatMulLimb(Tail(a), x, y \div LimbBase)

RECURSIVE NatMul(_, _)
\* a * b
NatMul(a, b) ==
  IF a = <<>> \/ b = <<>> THEN <<>>
  ELSE NatNorm(NatAdd(NatMulLimb(b, a[1], 0), <<0>> \o NatMul(Tail(a), b)))

\* a * 2^k
NatShl(a, k) ==
  IF a = <<>> THEN <<>>
  ELSE [j \in 1..(k \div 14) |-> 0]
         \o NatNorm(NatMulLimb(a, 2^(k % 14), 0))

\* floor(a / 2^k)
NatShr(a, k) ==
  LET w == k \div 14
      r == k % 14
      rest == IF w >= Len(a) THEN <<>> ELSE SubSeq(a, w + 1, Len(a))
  IN NatNorm([j \in 1..Len(rest) |->
                (rest[j] \div 2^r)
                  + (IF j < Len(rest) THEN (rest[j + 1] % 2^r) * 2^(14 - r)
                     ELSE 0)])

\* number of binary digits of a
NatBitLen(a) ==
  IF a = <<>> THEN 0
  ELSE 14 * (Len(a) - 1)
         + (CHOOSE k \in 1..14 : 2^(k - 1) <= a[Len(a)] /\ a[Len(a)] < 2^k)

NatIsOdd(a) == a # <<>> /\ a[1] % 2 = 1

\* the number 0
DblZero == [m |-> <<>>, e |-> 0]

\* the double nearest to n * 2^e, ties to the even significand
DblRound(n, e) ==
  LET len == NatBitLen(n)
  IN IF len = 0 THEN DblZero
     ELSE IF len <= 53 THEN [m |-> NatShl(n, 53 - len), e |-> e - (53 - len)]
     ELSE LET sh == len - 53
              q == NatShr(n, sh)
              rem == NatSub(n, NatShl(q, sh))
              half == NatShl(<<1>>, sh - 1)
              up == NatLess(half, rem) \/ (rem = half /\ NatIsOdd(q))
              q1 == IF up THEN NatAdd(q, <<1>>) ELSE q
          IN IF NatBitLen(q1) = 54
             THEN [m |-> NatShr(q1, 1), e |-> e + sh + 1]
             ELSE [m |-> q1, e |-> e + sh]

\* the double of an integer 0 <= n < 2^31
DblOfInt(n) == DblRound(NatOf(n), 0)

\* a * b
DblMul(a, b) == DblRound(NatMul(a.m, b.m), a.e + b.e)

RECURSIVE DblDivBits(_, _)
\* binary long division of significands: s = [k, q, r] after k quotient bits
DblDivBits(s, d) ==
  IF s.k = 56 THEN s
  ELSE LET ge == ~NatLess(s.r, d)
           r1 == IF ge THEN NatSub(s.r, d) ELSE s.r
       IN DblDivBits([k |-> s.k + 1,
                      q |-> NatAdd(NatShl(s.q, 1), IF ge THEN <<1>> ELSE <<>>),
                      r |-> NatShl(r1, 1)], d)

\* a / b for b > 0
DblDiv(a, b) ==
  IF a.m = <<>> THEN DblZero
  ELSE LET s == DblDivBits([k |-> 0, q |-> <<>>, r |-> a.m], b.m)
           sticky == IF s.r = <<>> THEN <<>> ELSE <<1>>
       IN DblRound(NatAdd(NatShl(s.q, 1), sticky), a.e - b.e - 56)

\* a < b
DblLess(a, b) ==
  IF b.m = <<>> THEN FALSE
  ELSE IF a.m = <<>> THEN TRUE
  ELSE IF a.e # b.e THEN a.e < b.e
  ELSE NatLess(a.m, b.m)

\* Math.min(a, b)
DblMin(a, b) == IF DblLess(b, a) THEN b ELSE a

\* Math.max(a, b)
DblMax(a, b) == IF DblLess(a, b) THEN b ELSE a

\* floor(a * 2^k) as an integer
DblFloorTimesPow2(a, k) ==
  IF a.e + k >= 0 THEN NatToInt(NatShl(a.m, a.e + k))
  ELSE NatToInt(NatShr(a.m, 0 - (a.e + k)))

\* a is an integer multiple of 2^(-k)
DblIsMultipleOfPow2(a, k) ==
  a.m = <<>> \/ a.e + k >= 0
    \/ NatShl(NatShr(a.m, 0 - (a.e + k)), 0 - (a.e + k)) = a.m

\* Math.floor(a)
DblFloor(a) == DblFloorTimesPow2(a, 0)

\* Math.round(a): the nearest integer, ties upwards
DblRoundHalfUp(a) == (DblFloorTimesPow2(a, 1) + 1) \div 2

\* -Math.round(-a): the nearest integer, ties downwards
DblRoundHalfDown(a) ==
  (DblFloorTimesPow2(a, 1) + (IF DblIsMultipleOfPow2(a, 1) THEN 0 ELSE 1)) \div 2

\* the number literals 0.6 and 0.8
Dbl0_6 == [m |-> <<13107, 3276, 13107, 1228>>, e |-> 0 - 53]

Dbl0_8 == [m |-> <<6554, 9830, 6553, 1638>>, e |-> 0 - 53]

\* ------------------------------------------------------------------------
\* Scale factors
\* ------------------------------------------------------------------------

\* the number 1 as a scale factor
ScaleOne == [num |-> 1, den |-> 1]

\* scale !== 1
ScaleIsNotOne(s) == s.num # s.den

\* the number scale: the double s.num / s.den
ScaleValue(s) == DblDiv(DblOfInt(s.num), DblOfInt(s.den))

\* num / den is halfway between two integers
Halfway(num, den) == (2 * num) % (2 * den) = den

\* Math.round(v * scale) for v >= 0.  The double product is within 2^(-20)
\* of v * s.num / s.den, which is either halfway between two integers or at
\* least 1 / (2 * s.den) away from that (s.den < 2^19): only when it is
\* halfway can the double round differently, and then the double product
\* decides.
RoundTimesScale(v, s) ==
  IF Halfway(v * s.num, s.den)
  THEN DblRoundHalfUp(DblMul(DblOfInt(v), ScaleValue(s)))
  ELSE Round(v * s.num, s.den)

\* Math.round(v * scale) in place of Math.round(v / scale)
RoundDivScaleInverted(v, s) == RoundTimesScale(v, s)

\* Math.round(v / scale), in the same way (s.num < 2^19); for v < 0 the tie
\* goes upwards as well, towards zero
RoundDivScale(v, s) ==
  IF ~Halfway(v * s.den, s.num) THEN Round(v * s.den, s.num)
  ELSE IF v >= 0 THEN DblRoundHalfUp(DblDiv(DblOfInt(v), ScaleValue(s)))
  ELSE 0 - DblRoundHalfDown(DblDiv(DblOfInt(0 - v), ScaleValue(s)))

\* ------------------------------------------------------------------------
\* Strings
\* ------------------------------------------------------------------------

\* the code units String.prototype.trim removes: WhiteSpace and
\* LineTerminator of ECMAScript; "uXXXX" stands for the code unit U+XXXX
WhiteSpace ==
  {" ", "\n", "\t", "\r", "\f", "u000B", "u00A0", "u1680", "u2000", "u2001",
   "u2002", "u2003", "u2004", "u2005", "u2006", "u2007", "u2008", "u2009",
   "u200A", "u2028", "u2029", "u202F", "u205F", "u3000", "uFEFF"}

RECURSIVE TrimStart(_)
TrimStart(s) ==
  IF s # <<>> /\ Head(s) \in WhiteSpace THEN TrimStart(Tail(s)) ELSE s

RECURSIVE TrimEnd(_)
TrimEnd(s) ==
  IF s # <<>> /\ s[Len(s)] \in WhiteSpace
  THEN TrimEnd(SubSeq(s, 1, Len(s) - 1))
  ELSE s

\* String.prototype.trim
Trim(s) == TrimEnd(TrimStart(s))

\* ------------------------------------------------------------------------
\* recognizeImage: a recognized line becomes a TextBlock
\* ------------------------------------------------------------------------

\* marks a line for which the engine reports no baseline
NoBaseline == [none |-> TRUE]

\* line.baseline?.x0 ?? bbox.x0, and so on, field by field: a baseline is a
\* record with any of the fields x0, y0, x1, y1
BaselineOf(line) ==
  [x0 |-> IF "x0" \in DOMAIN line.baseline THEN line.baseline.x0
          ELSE line.bbox.x0,
   y0 |-> IF "y0" \in DOMAIN line.baseline THEN line.baseline.y0
          ELSE line.bbox.y1,
   x1 |-> IF "x1" \in DOMAIN line.baseline THEN line.baseline.x1
          ELSE line.bbox.x1,
   y1 |-> IF "y1" \in DOMAIN line.baseline THEN line.baseline.y1
          ELSE line.bbox.y1]

\* the TextBlock pushed for one line; confidence is line.confidence / 100,
\* kept as the fraction num/den
LineToBlock(line) ==
  LET lineHeight == line.bbox.y1 - line.bbox.y0
      fontSize == Max(MIN_OCR_FONT_SIZE, Round(lineHeight * 3, 4))
  IN [text |-> Trim(line.text),
      confidence |-> [num |-> line.confidence, den |-> 100],
      bbox |-> [x0 |-> line.bbox.x0, y0 |-> line.bbox.y0,
                x1 |-> line.bbox.x1, y1 |-> line.bbox.y1],
      baseline |-> BaselineOf(line),
      fontSize |-> fontSize,
      lineHeight |-> lineHeight]

RECURSIVE LinesToBlocks(_)
\* the loop over result.data.lines, skipping lines that are blank after trim
LinesToBlocks(lines) ==
  IF lines = <<>> THEN <<>>
  ELSE IF Trim(Head(lines).text) = <<>> THEN LinesToBlocks(Tail(lines))
  ELSE <<LineToBlock(Head(lines))>> \o LinesToBlocks(Tail(lines))

\* ------------------------------------------------------------------------
\* translateBlocksParallel: the per-block async callback
\* ------------------------------------------------------------------------

\* what the translation engine returns for a text when it does not throw
TranslateWithPivot(from, to, text) == <<"[", to, "]">> \o text

\* a scaledBlock that maps the baseline back as well
ScaledBlockWithBaseline(block, s) ==
  IF ScaleIsNotOne(s)
  THEN [block EXCEPT
          !.bbox = [x0 |-> RoundDivScale(block.bbox.x0, s),
                    y0 |-> RoundDivScale(block.bbox.y0, s),
                    x1 |-> RoundDivScale(block.bbox.x1, s),
                    y1 |-> RoundDivScale(block.bbox.y1, s)],
          !.baseline = [x0 |-> RoundDivScale(block.baseline.x0, s),
                        y0 |-> RoundDivScale(block.baseline.y0, s),
                        x1 |-> RoundDivScale(block.baseline.x1, s),
                        y1 |-> RoundDivScale(block.baseline.y1, s)],
          !.fontSize = RoundDivScale(block.fontSize, s),
          !.lineHeight = RoundDivScale(block.lineHeight, s)]
  ELSE block

\* scaledBlock: geometry mapped back to the original image
ScaledBlock(block, s) ==
  IF ScaleIsNotOne(s)
  THEN [block EXCEPT
          !.bbox = [x0 |-> RoundDivScale(block.bbox.x0, s),
                    y0 |-> RoundDivScale(block.bbox.y0, s),
                    x1 |-> RoundDivScale(block.bbox.x1, s),
                    y1 |-> RoundDivScale(block.bbox.y1, s)],
          !.fontSize = RoundDivScale(block.fontSize, s),
          !.lineHeight = RoundDivScale(block.lineHeight, s)]
  ELSE block

\* { ...b, translatedText: t }
WithTranslatedText(b, t) ==
  [text |-> b.text, confidence |-> b.confidence, bbox |-> b.bbox,
   baseline |-> b.baseline, fontSize |-> b.fontSize,
   lineHeight |-> b.lineHeight, translatedText |-> t]

\* the try branch: the translation call returned
TranslatedOk(block, from, to, s) ==
  WithTranslatedText(ScaledBlock(block, s),
                     TranslateWithPivot(from, to, block.text))

\* a catch branch that gives up the text
TranslatedFailedBlank(block, from, to, s) ==
  WithTranslatedText(block, <<>>)

\* the catch branch: the translation call threw
TranslatedFailed(block, from, to, s) ==
  WithTranslatedText(block, block.text)

\* ------------------------------------------------------------------------
\* preprocessImage
\* ------------------------------------------------------------------------

\* an uploaded image: its identity and its metadata
InputBuffer(id, w, h) == [kind |-> "input", id |-> id, width |-> w, height |-> h]

\* sharp(buffer).resize(newWidth, newHeight).toBuffer()
ResizedBuffer(buf, w, h) ==
  [kind |-> "resized", id |-> buf.id, width |-> w, height |-> h]

\* a preprocessor that limits the width only
PreprocessImageByWidth(buf) ==
  IF buf.width <= MAX_IMAGE_DIMENSION
  THEN [processedBuffer |-> buf, scale |-> ScaleOne]
  ELSE LET s == [num |-> MAX_IMAGE_DIMENSION, den |-> buf.width]
       IN [processedBuffer |->
             ResizedBuffer(buf, RoundTimesScale(buf.width, s),
                           RoundTimesScale(buf.height, s)),
           scale |-> s]

\* { processedBuffer, scale } for an image buffer
PreprocessImage(buf) ==
  LET width == buf.width
      height == buf.height
      maxDim == Max(width, height)
  IN IF maxDim <= MAX_IMAGE_DIMENSION
     THEN [processedBuffer |-> buf, scale |-> ScaleOne]
     ELSE LET s == [num |-> MAX_IMAGE_DIMENSION, den |-> maxDim]
              newWidth == RoundTimesScale(width, s)
              newHeight == RoundTimesScale(height, s)
          IN [processedBuffer |-> ResizedBuffer(buf, newWidth, newHeight),
              scale |-> s]

\* ------------------------------------------------------------------------
\* renderer.ts: calculateFontSize and truncateText
\* ------------------------------------------------------------------------

\* the smallest font size calculateFontSize returns
MIN_RENDER_FONT_SIZE == 8

\* the string literal appended by truncateText, one element for each UTF-16
\* code unit of the literal as the source file has it: U+00E2, U+20AC, U+00A6
EllipsisMarker == <<"u00E2", "u20AC", "u00A6">>

\* String.prototype.substring(a, b) for a <= b: arguments below 0 count as 0,
\* arguments beyond the length as the length
Substring(text, a, b) ==
  SubSeq(text, Min(Len(text), Max(0, a)) + 1, Min(Len(text), Max(0, b)))

\* a calculateFontSize that never scales down
CalculateFontSizeHeightOnly(text, maxWidth, maxHeight, originalFontSize) ==
  DblMax(DblOfInt(MIN_RENDER_FONT_SIZE),
         DblMin(DblOfInt(originalFontSize), DblMul(DblOfInt(maxHeight), Dbl0_8)))

\* calculateFontSize for integer arguments >= 0; the result is a double,
\* which need not be an integer (maxHeight * 0.8)
CalculateFontSize(text, maxWidth, maxHeight, originalFontSize) ==
  LET avgCharWidth == DblMul(DblOfInt(originalFontSize), Dbl0_6)
      estimatedWidth == DblMul(DblOfInt(Len(text)), avgCharWidth)
      fontSize ==
        IF DblLess(DblOfInt(maxWidth), estimatedWidth)
        THEN DblOfInt(DblFloor(DblMul(DblDiv(DblOfInt(maxWidth), estimatedWidth),
                                      DblOfInt(originalFontSize))))
        ELSE DblOfInt(originalFontSize)
  IN DblMax(DblOfInt(MIN_RENDER_FONT_SIZE),
            DblMin(fontSize, DblMul(DblOfInt(maxHeight), Dbl0_8)))

\* Math.floor(maxWidth / (fontSize * 0.6)) for a double fontSize > 0
MaxChars(maxWidth, fontSize) ==
  DblFloor(DblDiv(DblOfInt(maxWidth), DblMul(fontSize, Dbl0_6)))

\* a truncateText that cuts to maxChars and appends nothing
TruncateTextCut(text, maxWidth, fontSize) ==
  Substring(text, 0, MaxChars(maxWidth, fontSize))

\* truncateText
TruncateText(text, maxWidth, fontSize) ==
  LET maxChars == MaxChars(maxWidth, fontSize)
  IN IF Len(text) <= maxChars
     THEN text
     ELSE Substring(text, 0, maxChars - 1) \o EllipsisMarker

\* ------------------------------------------------------------------------
\* Characters and their UTF-8 bytes
\* ------------------------------------------------------------------------

\* U+0000, the separator getCacheKey joins with
NUL == "\\0"

\* the printable ASCII characters U+0020 to U+005F, in code order
PrintableHigh ==
  <<" ", "!", "\"", "#", "$", "%", "&", "'", "(", ")", "*", "+", ",", "-",
    ".", "/", "0", "1", "2", "3", "4", "5", "6", "7", "8", "9", ":", ";",
    "<", "=", ">", "?", "@", "A", "B", "C", "D", "E", "F", "G", "H", "I",
    "J", "K", "L", "M", "N", "O", "P", "Q", "R", "S", "T", "U", "V", "W",
    "X", "Y", "Z", "[", "\\", "]", "^", "_">>

\* U+0061 to U+007E, in code order
PrintableLow ==
  <<"a", "b", "c", "d", "e",
    "f", "g", "h", "i", "j", "k", "l", "m", "n", "o", "p", "q", "r", "s",
    "t", "u", "v", "w", "x", "y", "z", "{", "|", "}", "~">>

\* the byte hash.update writes for a character (UTF-8 of an ASCII character)
CharCode(ch) ==
  IF ch = NUL THEN 0
  ELSE IF \E k \in 1..Len(PrintableHigh) : PrintableHigh[k] = ch
  THEN 31 + CHOOSE k \in 1..Len(PrintableHigh) : PrintableHigh[k] = ch
  ELSE 96 + CHOOSE k \in 1..Len(PrintableLow) : PrintableLow[k] = ch

Bytes(s) == [k \in 1..Len(s) |-> CharCode(s[k])]

\* ------------------------------------------------------------------------
\* SHA-1 (crypto.createHash('sha1')), on 32-bit words kept as two 16-bit
\* halves <<high, low>>
\* ------------------------------------------------------------------------

Pow2(n) == CASE n = 0 -> 1 [] n = 1 -> 2 [] n = 2 -> 4 [] n = 5 -> 32
             [] n = 11 -> 2048 [] n = 14 -> 16384 [] n = 15 -> 32768
             [] n = 16 -> 65536

RECURSIVE Xor16(_, _)
\* bitwise exclusive or of two 16-bit numbers
Xor16(a, b) ==
  IF a = 0 THEN b
  ELSE IF b = 0 THEN a
  ELSE ((a + b) % 2) + 2 * Xor16(a \div 2, b \div 2)

RECURSIVE Ch16(_, _, _, _)
\* (b AND c) OR ((NOT b) AND d) on n bits
Ch16(b, c, d, n) ==
  IF n = 0 THEN 0
  ELSE (IF b % 2 = 1 THEN c % 2 ELSE d % 2)
         + 2 * Ch16(b \div 2, c \div 2, d \div 2, n - 1)

RECURSIVE Maj16(_, _, _)
\* (b AND c) OR (b AND d) OR (c AND d)
Maj16(b, c, d) ==
  IF b + c + d = 0 THEN 0
  ELSE (((b % 2) + (c % 2) + (d % 2)) \div 2)
         + 2 * Maj16(b \div 2, c \div 2, d \div 2)

XorW(x, y) == <<Xor16(x[1], y[1]), Xor16(x[2], y[2])>>

\* addition modulo 2^32
AddW(x, y) ==
  <<(x[1] + y[1] + ((x[2] + y[2]) \div 65536)) % 65536, (x[2] + y[2]) % 65536>>

\* rotation to the left by n bits, 0 < n < 16
RotlSmall(x, n) ==
  <<((x[1] * Pow2(n)) % 65536) + (x[2] \div Pow2(16 - n)),
    ((x[2] * Pow2(n)) % 65536) + (x[1] \div Pow2(16 - n))>>

\* rotation to the left by n bits, 0 < n < 32, n # 16
Rotl(x, n) == IF n < 16 THEN RotlSmall(x, n) ELSE RotlSmall(<<x[2], x[1]>>, n - 16)

\* the round function and constant of round t (1..80)
Sha1F(t, b, c, d) ==
  IF t <= 20 THEN <<Ch16(b[1], c[1], d[1], 16), Ch16(b[2], c[2], d[2], 16)>>
  ELSE IF t > 40 /\ t <= 60
  THEN <<Maj16(b[1], c[1], d[1]), Maj16(b[2], c[2], d[2])>>
  ELSE XorW(XorW(b, c), d)

Sha1K(t) ==
  IF t <= 20 THEN <<23170, 31129>>
  ELSE IF t <= 40 THEN <<28377, 60321>>
  ELSE IF t <= 60 THEN <<36635, 48348>>
  ELSE <<51810, 49622>>

Sha1Init == <<<<26437, 8961>>, <<61389, 43913>>, <<39098, 56574>>, <<4146, 21622>>, <<50130, 57840>>>>

\* the message with its padding: 0x80, zeros, the bit length in 64 bits
Sha1Pad(bytes) ==
  LET n == Len(bytes)
      zeros == (119 - (n % 64)) % 64
      bits == 8 * n
  IN bytes \o <<128>> \o [k \in 1..zeros |-> 0]
       \o <<0, 0, 0, 0, (bits \div 16777216) % 256, (bits \div 65536) % 256,
            (bits \div 256) % 256, bits % 256>>

\* the 16 big-endian words of block number blk (from 0)
Sha1Block(padded, blk) ==
  [t \in 1..16 |->
     LET o == 64 * blk + 4 * (t - 1)
     IN <<padded[o + 1] * 256 + padded[o + 2],
          padded[o + 3] * 256 + padded[o + 4]>>]

RECURSIVE Sha1Expand(_)
\* the message schedule of 80 words
Sha1Expand(w) ==
  IF Len(w) = 80 THEN w
  ELSE LET t == Len(w) + 1
       IN Sha1Expand(Append(w, Rotl(XorW(XorW(w[t - 3], w[t - 8]),
                                        XorW(w[t - 14], w[t - 16])), 1)))

\* round t on the working variables v = <<a, b, c, d, e>>
Sha1Round(t, v, w) ==
  <<AddW(AddW(AddW(AddW(Rotl(v[1], 5), Sha1F(t, v[2], v[3], v[4])), v[5]),
              Sha1K(t)), w[t]),
    v[1], Rotl(v[2], 30), v[3], v[4]>>

RECURSIVE Sha1Rounds(_, _)
\* the rounds from s.t on, s.v being the working variables before round s.t
Sha1Rounds(s, w) ==
  IF s.t > 80 THEN s.v
  ELSE Sha1Rounds([t |-> s.t + 1, v |-> Sha1Round(s.t, s.v, w)], w)

RECURSIVE Sha1Blocks(_, _)
\* the hash value after the blocks from s.blk on (numbered from 0) of the
\* padded message, s.h being the hash value before block s.blk
Sha1Blocks(padded, s) ==
  IF 64 * s.blk >= Len(padded) THEN s.h
  ELSE LET h == s.h
           v == Sha1Rounds([t |-> 1, v |-> h],
                           Sha1Expand(Sha1Block(padded, s.blk)))
       IN Sha1Blocks(padded,
                     [blk |-> s.blk + 1,
                      h |-> <<AddW(h[1], v[1]), AddW(h[2], v[2]),
                              AddW(h[3], v[3]), AddW(h[4], v[4]),
                              AddW(h[5], v[5])>>])

HexDigits == <<"0", "1", "2", "3", "4", "5", "6", "7", "8", "9", "a", "b", "c",
               "d", "e", "f">>

\* four hexadecimal digits of a 16-bit number
Hex16(v) ==
  <<HexDigits[(v \div 4096) + 1], HexDigits[((v \div 256) % 16) + 1],
    HexDigits[((v \div 16) % 16) + 1], HexDigits[(v % 16) + 1]>>

RECURSIVE HexWords(_)
HexWords(h) ==
  IF h = <<>> THEN <<>>
  ELSE Hex16(Head(h)[1]) \o Hex16(Head(h)[2]) \o HexWords(Tail(h))

\* hash.update(s); hash.digest('hex')
Sha1Hex(s) ==
  HexWords(Sha1Blocks(Sha1Pad(Bytes(s)), [blk |-> 0, h |-> Sha1Init]))

\* ------------------------------------------------------------------------
\* The translation cache (src/unnamed/part_001): getCacheKey
\*
\* An argument is a tagged value: [t |-> "string", v |-> <<characters>>],
\* [t |-> "number", v |-> integer], [t |-> "boolean", v |-> BOOLEAN],
\* [t |-> "null"] or [t |-> "undefined"].
\* ------------------------------------------------------------------------

SIMPLE_KEY_THRESHOLD == 200

Str(chars) == [t |-> "string", v |-> chars]

Num(n) == [t |-> "number", v |-> n]

Bool(b) == [t |-> "boolean", v |-> b]

RECURSIVE DecimalDigits(_)
\* the decimal digits of a natural number
DecimalDigits(n) ==
  IF n < 10 THEN <<HexDigits[n + 1]>>
  ELSE DecimalDigits(n \div 10) \o <<HexDigits[(n % 10) + 1]>>

\* String(arg)
StringOf(arg) ==
  CASE arg.t = "string" -> arg.v
    [] arg.t = "number" ->
         IF arg.v < 0 THEN <<"-">> \o DecimalDigits(0 - arg.v)
         ELSE DecimalDigits(arg.v)
    [] arg.t = "boolean" ->
         IF arg.v THEN <<"t", "r", "u", "e">> ELSE <<"f", "a", "l", "s", "e">>
    [] arg.t = "null" -> <<"n", "u", "l", "l">>
    [] arg.t = "undefined" -> <<"u", "n", "d", "e", "f", "i", "n", "e", "d">>

RECURSIVE Join(_, _)
\* Array.prototype.join of an array of strings
Join(strs, sep) ==
  IF strs = <<>> THEN <<>>
  ELSE IF Len(strs) = 1 THEN strs[1]
  ELSE strs[1] \o sep \o Join(Tail(strs), sep)

\* line 22: args.map(arg => String(arg)).join('\0')
SimpleKey(args) == Join([k \in 1..Len(args) |-> StringOf(args[k])], <<NUL>>)

\* a key function that never hashes
GetCacheKeyJoined(args) == SimpleKey(args)

\* lines 20-32
GetCacheKey(args) ==
  LET simpleKey == SimpleKey(args)
  IN IF Len(simpleKey) <= SIMPLE_KEY_THRESHOLD
     THEN simpleKey
     ELSE Sha1Hex(simpleKey)

\* ------------------------------------------------------------------------
\* The translation cache: the LRUCache store, readCache, writeCache
\*
\* The store is the sequence of its entries, the least recently used first.
\* ------------------------------------------------------------------------

\* a cache that is disabled by a negative size only
CacheDisabledWhenNegative(size) == size < 0

\* lines 35, 44: config.cacheSize <= 0
CacheDisabled(size) == size <= 0

\* line 10: max of the store
CacheMax(size) == IF size > 0 THEN size ELSE 1

\* position of key in the store, 0 if it has no entry
LruIndex(store, key) ==
  IF \E k \in 1..Len(store) : store[k].key = key
  THEN CHOOSE k \in 1..Len(store) : store[k].key = key
  ELSE 0

\* the store without the entry at position k (k = 0: the store)
LruWithout(store, k) ==
  [j \in 1..(Len(store) - (IF k = 0 THEN 0 ELSE 1)) |->
     IF k = 0 \/ j < k THEN store[j] ELSE store[j + 1]]

\* the store after cache.get(key): a found entry becomes the most recent
LruAfterGet(store, key) ==
  LET k == LruIndex(store, key)
  IN IF k = 0 THEN store ELSE Append(LruWithout(store, k), store[k])

\* the store after cache.set(key, value): the entry becomes the most recent
\* and, beyond max entries, the least recently used one is dropped
LruAfterSet(store, key, value, max) ==
  LET put == Append(LruWithout(store, LruIndex(store, key)),
                    [key |-> key, value |-> value])
  IN IF Len(put) > max THEN Tail(put) ELSE put

\* what readCache returns
Null == [null |-> TRUE]

Value(v) == [null |-> FALSE, value |-> v]

\* line 40: cache.get(key) || null, on the store before the get
GetOrNull(store, key) ==
  LET k == LruIndex(store, key)
  IN IF k = 0 \/ store[k].value = <<>> THEN Null ELSE Value(store[k].value)

\* ------------------------------------------------------------------------
\* State
\* ------------------------------------------------------------------------

VARIABLES
  \* translateBlocksParallel: parameters
  blocks, fromLang, toLang, scale,
  \* translateBlocksParallel: locals
  i,             \* the loop variable (0-based, as in the code)
  results,       \* results
  batchResults,  \* value of each block's promise once it has settled
  callState,     \* per block: "new", "inflight", "ok", "failed"
  tbPc,          \* "idle", "called", "awaitAll", "returned"
  \* tesseract.ts: module state
  worker,        \* 0 for null, else the id of a worker
  currentLang,
  initPromise,   \* 0 for null, else the id of a promise
  \* tesseract.ts: the engine's workers, the promises, the calls
  wk,            \* per worker: "unborn", "creating", "live", "terminating",
                 \* "terminated", "failed"
  pstate,        \* per init promise: "none", "pending", "fulfilled", "rejected"
  waiters,       \* per init promise: the calls awaiting it, in order
  init,          \* per call: where its async initializer stands
  call,          \* per call: where recognizeImage / initWorker stands
  mq,            \* the microtask queue
  syncBlock,     \* TRUE while the code that started the last call still runs
  \* image.ts: one translateImage request
  ti,            \* its parameters, locals, position and return value
  \* image.ts: one extractTextFromImage request
  et,            \* its parameters, locals, position and return value
  \* image.ts: one preprocessImage call
  pp,            \* its argument, position and return value
  \* cache: getCacheKey called with the same arguments again and again
  gk,            \* the arguments and the keys returned so far
  \* cache: module state
  cacheSize,     \* config.cacheSize
  cache,         \* the LRUCache store
  cacheLog,      \* the readCache and writeCache calls made, with what the
                 \* reads returned
  \* tesseract.ts: one terminateWorker call at a time
  tw,            \* its position and the worker it terminates
  \* renderer.ts: renderTranslatedImageSimple on one block
  rs             \* the block, the adjusted font size and the string drawn

batchVars ==
  <<blocks, fromLang, toLang, scale, i, results, batchResults, callState, tbPc>>

ocrVars ==
  <<worker, currentLang, initPromise, wk, pstate, waiters, init, call, mq,
    syncBlock>>

pipeVars == <<ti, et>>

preVars == <<pp>>

keyVars == <<gk>>

cacheVars == <<cacheSize, cache, cacheLog>>

termVars == <<tw>>

renderVars == <<rs>>

\* state of the functions that are called on their own
fnVars == <<preVars, keyVars, cacheVars, termVars, renderVars>>

vars == <<batchVars, ocrVars, pipeVars, fnVars>>

\* placeholder for a promise that has not settled
NoResult == [pending |-> TRUE]

\* ------------------------------------------------------------------------
\* translateBlocksParallel
\* ------------------------------------------------------------------------

\* last (1-based) index of blocks.slice(ii, ii + MAX_CONCURRENT_TRANSLATIONS)
BatchEndUnbounded(bl, ii) == Len(bl)

BatchEnd(bl, ii) == Min(ii + MAX_CONCURRENT_TRANSLATIONS, Len(bl))

\* Promise.all resolves on the first settled promise
AnySettled(cs, lo, hi) == \E j \in lo..hi : cs[j] \in {"ok", "failed"}

\* Promise.all(batchPromises) resolves: every callback has returned (none
\* rejects, each catches its own error)
AllSettled(cs, lo, hi) == \A j \in lo..hi : cs[j] \in {"ok", "failed"}

\* results.unshift(...batchResults)
PushFront(res, br) == br \o res

\* results.push(...batchResults)
Push(res, br) == res \o br

\* batch.map(async block => ...): every callback runs up to its await, so
\* every translation call of the batch is issued
IssueBatch(cs, lo, hi) ==
  [j \in DOMAIN cs |-> IF j \in lo..hi THEN "inflight" ELSE cs[j]]

\* the call, up to the first await (or the return, for no blocks)
TbCall(bl, from, to, s) ==
  /\ blocks' = bl
  /\ fromLang' = from
  /\ toLang' = to
  /\ scale' = s
  /\ i' = 0
  /\ results' = <<>>
  /\ batchResults' = [j \in 1..Len(bl) |-> NoResult]
  /\ callState' = IssueBatch([j \in 1..Len(bl) |-> "new"], 1, BatchEnd(bl, 0))
  /\ tbPc' = IF Len(bl) = 0 THEN "returned" ELSE "awaitAll"

\* a caller other than translateImage enters the function
TbEnter ==
  /\ tbPc = "called"
  /\ TbCall(blocks, fromLang, toLang, scale)

\* the translation call of block j returns (ok) or throws (~ok); the rest of
\* the callback runs and its promise is fulfilled
TbCallSettles(j, ok) ==
  /\ callState[j] = "inflight"
  /\ callState' = [callState EXCEPT ![j] = IF ok THEN "ok" ELSE "failed"]
  /\ batchResults' =
       [batchResults EXCEPT ![j] =
          IF ok THEN TranslatedOk(blocks[j], fromLang, toLang, scale)
                ELSE TranslatedFailed(blocks[j], fromLang, toLang, scale)]
  /\ UNCHANGED <<blocks, fromLang, toLang, scale, i, results, tbPc>>

\* await Promise.all(...) resumes: push, then the next iteration or the return
TbChunkDone ==
  /\ tbPc = "awaitAll"
  /\ AllSettled(callState, i + 1, BatchEnd(blocks, i))
  /\ results' = Push(results, SubSeq(batchResults, i + 1, BatchEnd(blocks, i)))
  /\ i' = i + MAX_CONCURRENT_TRANSLATIONS
  /\ IF i' < Len(blocks)
     THEN /\ callState' = IssueBatch(callState, i' + 1, BatchEnd(blocks, i'))
          /\ tbPc' = "awaitAll"
     ELSE /\ callState' = callState
          /\ tbPc' = "returned"
  /\ UNCHANGED <<blocks, fromLang, toLang, scale, batchResults>>

\* no translateImage request
NoRequest == [pc |-> "none"]

PipeIdle == ti = NoRequest /\ et = NoRequest

\* no preprocessImage call of its own
NoPreprocess == [pc |-> "none"]

PreIdle == pp = NoPreprocess

\* no getCacheKey call of its own
NoKeyCall == [args |-> <<>>, keys |-> <<>>]

KeyIdle == gk = NoKeyCall

\* the cache module after import, with caching disabled and never called
CacheIdle ==
  /\ cacheSize = 0
  /\ cache = <<>>
  /\ cacheLog = <<>>

\* no terminateWorker call is running
NoTerminate == [pc |-> "idle", target |-> 0]

TermIdle == tw = NoTerminate

\* no renderTranslatedImageSimple call of its own
NoSimpleRender == [pc |-> "none"]

RenderIdle == rs = NoSimpleRender

\* none of the functions below is being called on its own
FnIdle ==
  /\ PreIdle
  /\ KeyIdle
  /\ CacheIdle
  /\ TermIdle
  /\ RenderIdle

\* translateBlocksParallel is not running
BatchIdle ==
  /\ blocks = <<>>
  /\ fromLang = ""
  /\ toLang = ""
  /\ scale = ScaleOne
  /\ i = 0
  /\ results = <<>>
  /\ batchResults = <<>>
  /\ callState = <<>>
  /\ tbPc = "idle"

\* ------------------------------------------------------------------------
\* tesseract.ts: mapLanguage
\* ------------------------------------------------------------------------

LANG_MAP ==
  [l \in {"en", "zh", "zh-Hans", "zh-Hant", "ja", "ko", "fr", "de", "es",
          "it", "pt", "ru", "ar", "vi", "th"} |->
     CASE l = "en" -> "eng"
       [] l = "zh" -> "chi_sim"
       [] l = "zh-Hans" -> "chi_sim"
       [] l = "zh-Hant" -> "chi_tra"
       [] l = "ja" -> "jpn"
       [] l = "ko" -> "kor"
       [] l = "fr" -> "fra"
       [] l = "de" -> "deu"
       [] l = "es" -> "spa"
       [] l = "it" -> "ita"
       [] l = "pt" -> "por"
       [] l = "ru" -> "rus"
       [] l = "ar" -> "ara"
       [] l = "vi" -> "vie"
       [] l = "th" -> "tha"]

\* what LANG_MAP inherits from Object.prototype: under each of these names
\* LANG_MAP[name] is a function or an object, named here by a string that is
\* no native code
ObjectPrototype ==
  [p \in {"constructor", "__proto__", "hasOwnProperty",
          "isPrototypeOf", "propertyIsEnumerable",
          "toLocaleString", "toString", "valueOf",
          "__defineGetter__", "__defineSetter__",
          "__lookupGetter__", "__lookupSetter__"} |->
     CASE p = "constructor" -> "Object"
       [] p = "__proto__" -> "Object.prototype"
       [] p = "hasOwnProperty" -> "Object.prototype.hasOwnProperty"
       [] p = "isPrototypeOf" -> "Object.prototype.isPrototypeOf"
       [] p = "propertyIsEnumerable" -> "Object.prototype.propertyIsEnumerable"
       [] p = "toLocaleString" -> "Object.prototype.toLocaleString"
       [] p = "toString" -> "Object.prototype.toString"
       [] p = "valueOf" -> "Object.prototype.valueOf"
       [] p = "__defineGetter__" -> "Object.prototype.__defineGetter__"
       [] p = "__defineSetter__" -> "Object.prototype.__defineSetter__"
       [] p = "__lookupGetter__" -> "Object.prototype.__lookupGetter__"
       [] p = "__lookupSetter__" -> "Object.prototype.__lookupSetter__"]

\* LANG_MAP[lang] || 'eng': a property of LANG_MAP's own, else an inherited
\* one (each is truthy), else 'eng'
mapLanguage(lang) ==
  IF lang \in DOMAIN LANG_MAP THEN LANG_MAP[lang]
  ELSE IF lang \in DOMAIN ObjectPrototype THEN ObjectPrototype[lang]
  ELSE "eng"

\* ------------------------------------------------------------------------
\* tesseract.ts: initWorker and recognizeImage, any number of calls at once
\*
\* A call, the promise of its initializer and the worker that initializer
\* creates share one id.  External operations (worker.terminate, createWorker,
\* worker.recognize) complete in event-loop tasks of their own, which run only
\* when the microtask queue is empty; what an await resumes is a microtask.
\* ------------------------------------------------------------------------

CallIds == 1..MaxCalls

\* language codes the calls are made with: two that map to eng (one of them
\* unmapped), one that maps to jpn
CallLangs == {"en", "nl", "ja"}

NoCall ==
  [pc |-> "idle", lang |-> "", awaiting |-> 0, used |-> 0, err |-> "",
   language |-> ""]

NoInit == [pc |-> "none", target |-> 0]

\* the module's state after import
OcrInit ==
  /\ worker = 0
  /\ currentLang = ""
  /\ initPromise = 0
  /\ wk = [w \in CallIds |-> "unborn"]
  /\ pstate = [p \in CallIds |-> "none"]
  /\ waiters = [p \in CallIds |-> <<>>]
  /\ init = [c \in CallIds |-> NoInit]
  /\ call = [c \in CallIds |-> NoCall]
  /\ mq = <<>>
  /\ syncBlock = FALSE

\* the native code call c asks for
TessLang(c) == mapLanguage(call[c].lang)

\* the native code worker w is created for
WorkerLang(w) == mapLanguage(call[w].lang)

\* a fast path that looks at the worker only
FastPathAnyLang(w, cur, tessLang) == w # 0

\* no fast path at all
FastPathNever(w, cur, tessLang) == FALSE

\* line 59: worker && currentLang === tessLang
FastPath(w, cur, tessLang) == w # 0 /\ cur = tessLang

\* a waiter that takes the finished initialization for its own
SatisfiedAnyLang(cur, tessLang) == TRUE

\* line 65: currentLang === tessLang
SatisfiedAfterWait(cur, tessLang) == cur = tessLang

\* a finally block that leaves the marker alone
KeepMarker(ip) == ip

\* line 94: initPromise = null
ClearMarker(ip) == 0

\* the event loop runs microtask (kind, id) next; the code that started the
\* last call has run to its end
IsHead(kind, id) ==
  /\ mq # <<>>
  /\ Head(mq) = [kind |-> kind, id |-> id]
  /\ syncBlock' = FALSE

\* microtasks that resume the calls in ws, in the order they awaited
Resumptions(ws) == [k \in 1..Len(ws) |-> [kind |-> "call", id |-> ws[k]]]

\* lines 68-78, 96: the initializer of call c runs up to its first await and
\* its promise is stored in initPromise; q is the microtask queue it leaves
StartInit(c, lang, q) ==
  /\ IF worker # 0
     THEN /\ init' = [init EXCEPT ![c] = [pc |-> "terminating", target |-> worker]]
          /\ wk' = [wk EXCEPT ![worker] = IF @ = "live" THEN "terminating" ELSE @]
     ELSE /\ init' = [init EXCEPT ![c] = [pc |-> "creating", target |-> 0]]
          /\ wk' = [wk EXCEPT ![c] = "creating"]
  /\ initPromise' = c
  /\ pstate' = [pstate EXCEPT ![c] = "pending"]
  /\ waiters' = [waiters EXCEPT ![c] = <<c>>]
  /\ call' = [call EXCEPT ![c] = [@ EXCEPT !.pc = "awaitOwn", !.lang = lang]]
  /\ mq' = q
  /\ UNCHANGED <<worker, currentLang>>

\* recognizeImage(buffer, lang) is called: initWorker runs up to its first
\* await or its return
StartCall(c, lang) ==
  /\ call[c].pc = "idle"
  /\ c > 1 => call[c - 1].pc # "idle"
  /\ mq # <<>> => syncBlock
  /\ syncBlock' = TRUE
  /\ IF FastPath(worker, currentLang, mapLanguage(lang))
     THEN /\ call' = [call EXCEPT ![c] = [@ EXCEPT !.pc = "resume", !.lang = lang]]
          /\ mq' = Append(mq, [kind |-> "call", id |-> c])
          /\ UNCHANGED <<worker, currentLang, initPromise, wk, pstate,
                         waiters, init>>
     ELSE IF initPromise # 0
     THEN /\ call' = [call EXCEPT ![c] = [@ EXCEPT !.pc = "awaitInFlight",
                                            !.lang = lang,
                                            !.awaiting = initPromise]]
          /\ IF pstate[initPromise] = "pending"
             THEN /\ waiters' = [waiters EXCEPT ![initPromise] = Append(@, c)]
                  /\ mq' = mq
             ELSE /\ waiters' = waiters
                  /\ mq' = Append(mq, [kind |-> "call", id |-> c])
          /\ UNCHANGED <<worker, currentLang, initPromise, wk, pstate, init>>
     ELSE StartInit(c, lang, mq)

\* worker.terminate() of call c's initializer resolves or rejects
TerminateSettles(c, ok) ==
  /\ mq = <<>>
  /\ init[c].pc = "terminating"
  /\ init' = [init EXCEPT ![c].pc = IF ok THEN "terminateOk" ELSE "terminateErr"]
  /\ wk' = [wk EXCEPT ![init[c].target] = IF ok THEN "terminated" ELSE @]
  /\ mq' = <<[kind |-> "init", id |-> c]>>
  /\ syncBlock' = FALSE
  /\ UNCHANGED <<worker, currentLang, initPromise, pstate, waiters, call>>

\* createWorker(tessLang, ...) of call c's initializer resolves or rejects
CreateSettles(c, ok) ==
  /\ mq = <<>>
  /\ init[c].pc = "creating"
  /\ init' = [init EXCEPT ![c].pc = IF ok THEN "createOk" ELSE "createErr"]
  /\ wk' = [wk EXCEPT ![c] = IF ok THEN "live" ELSE "failed"]
  /\ mq' = <<[kind |-> "init", id |-> c]>>
  /\ syncBlock' = FALSE
  /\ UNCHANGED <<worker, currentLang, initPromise, pstate, waiters, call>>

\* worker.recognize(imageBuffer) of call c resolves or rejects
RecognizeSettles(c, ok) ==
  /\ mq = <<>>
  /\ call[c].pc = "recognizing"
  /\ call' = [call EXCEPT ![c].pc = IF ok THEN "recognizeOk" ELSE "recognizeErr"]
  /\ mq' = <<[kind |-> "call", id |-> c]>>
  /\ syncBlock' = FALSE
  /\ UNCHANGED <<worker, currentLang, initPromise, wk, pstate, waiters, init>>

\* lines 72-78: terminate resolved; worker = null, then createWorker is called
InitAfterTerminate(c) ==
  /\ IsHead("init", c)
  /\ init[c].pc = "terminateOk"
  /\ worker' = 0
  /\ init' = [init EXCEPT ![c].pc = "creating"]
  /\ wk' = [wk EXCEPT ![c] = "creating"]
  /\ mq' = Tail(mq)
  /\ UNCHANGED <<currentLang, initPromise, pstate, waiters, call>>

\* lines 78-96: createWorker resolved; the worker is recorded, the marker
\* cleared and the initializer's promise fulfilled
InitAfterCreate(c) ==
  /\ IsHead("init", c)
  /\ init[c].pc = "createOk"
  /\ worker' = c
  /\ currentLang' = TessLang(c)
  /\ initPromise' = ClearMarker(initPromise)
  /\ init' = [init EXCEPT ![c].pc = "done"]
  /\ pstate' = [pstate EXCEPT ![c] = "fulfilled"]
  /\ mq' = Tail(mq) \o Resumptions(waiters[c])
  /\ UNCHANGED <<wk, waiters, call>>

\* lines 90-96: terminate or createWorker rejected; the error is rethrown, the
\* marker cleared and the initializer's promise rejected
InitFails(c) ==
  /\ IsHead("init", c)
  /\ init[c].pc \in {"terminateErr", "createErr"}
  /\ initPromise' = ClearMarker(initPromise)
  /\ init' = [init EXCEPT ![c].pc = "failed"]
  /\ pstate' = [pstate EXCEPT ![c] = "rejected"]
  /\ mq' = Tail(mq) \o Resumptions(waiters[c])
  /\ UNCHANGED <<worker, currentLang, wk, waiters, call>>

\* line 98: await initPromise resumes in the call that started the initializer
ResumeOwner(c) ==
  /\ IsHead("call", c)
  /\ call[c].pc = "awaitOwn"
  /\ IF pstate[c] = "fulfilled"
     THEN /\ call' = [call EXCEPT ![c].pc = "resume"]
          /\ mq' = Append(Tail(mq), [kind |-> "call", id |-> c])
     ELSE /\ call' = [call EXCEPT ![c] = [@ EXCEPT !.pc = "threw", !.err = "init"]]
          /\ mq' = Tail(mq)
  /\ UNCHANGED <<worker, currentLang, initPromise, wk, pstate, waiters, init>>

\* lines 64-66: await initPromise resumes in a call that found an
\* initialization in flight
ResumeWaiter(c) ==
  /\ IsHead("call", c)
  /\ call[c].pc = "awaitInFlight"
  /\ IF pstate[call[c].awaiting] = "rejected"
     THEN /\ call' = [call EXCEPT ![c] = [@ EXCEPT !.pc = "threw", !.err = "init"]]
          /\ mq' = Tail(mq)
          /\ UNCHANGED <<worker, currentLang, initPromise, wk, pstate,
                         waiters, init>>
     ELSE IF SatisfiedAfterWait(currentLang, TessLang(c))
     THEN /\ call' = [call EXCEPT ![c].pc = "resume"]
          /\ mq' = Append(Tail(mq), [kind |-> "call", id |-> c])
          /\ UNCHANGED <<worker, currentLang, initPromise, wk, pstate,
                         waiters, init>>
     ELSE StartInit(c, call[c].lang, Tail(mq))

\* lines 107-113: await initWorker(language) resumes
ResumeRecognize(c) ==
  /\ IsHead("call", c)
  /\ call[c].pc = "resume"
  /\ IF worker = 0
     THEN call' = [call EXCEPT ![c] = [@ EXCEPT !.pc = "threw",
                                         !.err = "notInitialized"]]
     ELSE call' = [call EXCEPT ![c] = [@ EXCEPT !.pc = "recognizing",
                                         !.used = worker]]
  /\ mq' = Tail(mq)
  /\ UNCHANGED <<worker, currentLang, initPromise, wk, pstate, waiters, init>>

\* lines 113-155: await worker.recognize(...) resumes; the result is built
\* with language: currentLang, or the error is thrown on
ResumeResult(c) ==
  /\ IsHead("call", c)
  /\ call[c].pc \in {"recognizeOk", "recognizeErr"}
  /\ IF call[c].pc = "recognizeOk"
     THEN call' = [call EXCEPT ![c] = [@ EXCEPT !.pc = "returned",
                                         !.language = currentLang]]
     ELSE call' = [call EXCEPT ![c] = [@ EXCEPT !.pc = "threw",
                                         !.err = "recognize"]]
  /\ mq' = Tail(mq)
  /\ UNCHANGED <<worker, currentLang, initPromise, wk, pstate, waiters, init>>

InitOcr ==
  /\ OcrInit
  /\ BatchIdle
  /\ PipeIdle
  /\ FnIdle

NextOcr ==
  \/ \E c \in CallIds, lang \in CallLangs :
       StartCall(c, lang) /\ UNCHANGED <<batchVars, pipeVars, fnVars>>
  \/ \E c \in CallIds, ok \in BOOLEAN :
       TerminateSettles(c, ok) /\ UNCHANGED <<batchVars, pipeVars, fnVars>>
  \/ \E c \in CallIds, ok \in BOOLEAN :
       CreateSettles(c, ok) /\ UNCHANGED <<batchVars, pipeVars, fnVars>>
  \/ \E c \in CallIds, ok \in BOOLEAN :
       RecognizeSettles(c, ok) /\ UNCHANGED <<batchVars, pipeVars, fnVars>>
  \/ \E c \in CallIds : InitAfterTerminate(c) /\ UNCHANGED <<batchVars, pipeVars, fnVars>>
  \/ \E c \in CallIds : InitAfterCreate(c) /\ UNCHANGED <<batchVars, pipeVars, fnVars>>
  \/ \E c \in CallIds : InitFails(c) /\ UNCHANGED <<batchVars, pipeVars, fnVars>>
  \/ \E c \in CallIds : ResumeOwner(c) /\ UNCHANGED <<batchVars, pipeVars, fnVars>>
  \/ \E c \in CallIds : ResumeWaiter(c) /\ UNCHANGED <<batchVars, pipeVars, fnVars>>
  \/ \E c \in CallIds : ResumeRecognize(c) /\ UNCHANGED <<batchVars, pipeVars, fnVars>>
  \/ \E c \in CallIds : ResumeResult(c) /\ UNCHANGED <<batchVars, pipeVars, fnVars>>

SpecOcr == InitOcr /\ [][NextOcr]_vars

\* ------------------------------------------------------------------------
\* tesseract.ts: terminateWorker, and the specification of recognizeImage
\* and terminateWorker calls in any order and overlap
\* ------------------------------------------------------------------------

\* language codes that map to three native codes
SwitchLangs == {"en", "ja", "ko"}

\* lines 158-160: terminateWorker() is called and runs up to its await, or
\* returns at once when there is no worker
TwStart ==
  /\ tw.pc = "idle"
  /\ mq # <<>> => syncBlock
  /\ syncBlock' = TRUE
  /\ IF worker # 0
     THEN /\ tw' = [pc |-> "terminating", target |-> worker]
          /\ wk' = [wk EXCEPT ![worker] = IF @ = "live" THEN "terminating" ELSE @]
     ELSE /\ tw' = tw
          /\ wk' = wk
  /\ UNCHANGED <<worker, currentLang, initPromise, pstate, waiters, init,
                 call, mq>>

\* worker.terminate() of the terminateWorker call resolves or rejects
TwTerminateSettles(ok) ==
  /\ mq = <<>>
  /\ tw.pc = "terminating"
  /\ tw' = [tw EXCEPT !.pc = IF ok THEN "terminateOk" ELSE "terminateErr"]
  /\ wk' = [wk EXCEPT ![tw.target] = IF ok THEN "terminated" ELSE @]
  /\ mq' = <<[kind |-> "tw", id |-> 0]>>
  /\ syncBlock' = FALSE
  /\ UNCHANGED <<worker, currentLang, initPromise, pstate, waiters, init, call>>

\* lines 160-164: await worker.terminate() resumes: the module forgets its
\* worker, or the error is thrown on
TwResume ==
  /\ IsHead("tw", 0)
  /\ IF tw.pc = "terminateOk"
     THEN /\ worker' = 0
          /\ currentLang' = ""
     ELSE UNCHANGED <<worker, currentLang>>
  /\ tw' = NoTerminate
  /\ mq' = Tail(mq)
  /\ UNCHANGED <<initPromise, wk, pstate, waiters, init, call>>

InitOcrAll == InitOcr

NextOcrAll ==
  \/ \E c \in CallIds, lang \in SwitchLangs :
       StartCall(c, lang) /\ UNCHANGED <<batchVars, pipeVars, fnVars>>
  \/ \E c \in CallIds, ok \in BOOLEAN :
       TerminateSettles(c, ok) /\ UNCHANGED <<batchVars, pipeVars, fnVars>>
  \/ \E c \in CallIds, ok \in BOOLEAN :
       CreateSettles(c, ok) /\ UNCHANGED <<batchVars, pipeVars, fnVars>>
  \/ \E c \in CallIds, ok \in BOOLEAN :
       RecognizeSettles(c, ok) /\ UNCHANGED <<batchVars, pipeVars, fnVars>>
  \/ \E c \in CallIds : InitAfterTerminate(c) /\ UNCHANGED <<batchVars, pipeVars, fnVars>>
  \/ \E c \in CallIds : InitAfterCreate(c) /\ UNCHANGED <<batchVars, pipeVars, fnVars>>
  \/ \E c \in CallIds : InitFails(c) /\ UNCHANGED <<batchVars, pipeVars, fnVars>>
  \/ \E c \in CallIds : ResumeOwner(c) /\ UNCHANGED <<batchVars, pipeVars, fnVars>>
  \/ \E c \in CallIds : ResumeWaiter(c) /\ UNCHANGED <<batchVars, pipeVars, fnVars>>
  \/ \E c \in CallIds : ResumeRecognize(c) /\ UNCHANGED <<batchVars, pipeVars, fnVars>>
  \/ \E c \in CallIds : ResumeResult(c) /\ UNCHANGED <<batchVars, pipeVars, fnVars>>
  \/ TwStart
       /\ UNCHANGED <<batchVars, pipeVars, preVars, keyVars, cacheVars, renderVars>>
  \/ \E ok \in BOOLEAN :
       TwTerminateSettles(ok)
         /\ UNCHANGED <<batchVars, pipeVars, preVars, keyVars, cacheVars, renderVars>>
  \/ TwResume
       /\ UNCHANGED <<batchVars, pipeVars, preVars, keyVars, cacheVars, renderVars>>

SpecOcrAll == InitOcrAll /\ [][NextOcrAll]_vars

\* ------------------------------------------------------------------------
\* Specification of sequential recognizeImage calls: each call is made after
\* the one before it has returned or thrown
\* ------------------------------------------------------------------------

\* language codes of the sequential calls: three that map to eng or chi_sim
\* in two ways each, one that maps to jpn, and one that is no key of the
\* table but the name of an inherited property
SeqLangs == {"en", "nl", "zh", "zh-Hans", "ja", "constructor"}

\* await recognizeImage(...) of every earlier call is over
StartCallSeq(c, lang) ==
  /\ \A d \in CallIds : d < c => call[d].pc \in {"returned", "threw"}
  /\ StartCall(c, lang)

InitOcrSeq == InitOcr

NextOcrSeq ==
  \/ \E c \in CallIds, lang \in SeqLangs :
       StartCallSeq(c, lang) /\ UNCHANGED <<batchVars, pipeVars, fnVars>>
  \/ \E c \in CallIds, ok \in BOOLEAN :
       TerminateSettles(c, ok) /\ UNCHANGED <<batchVars, pipeVars, fnVars>>
  \/ \E c \in CallIds, ok \in BOOLEAN :
       CreateSettles(c, ok) /\ UNCHANGED <<batchVars, pipeVars, fnVars>>
  \/ \E c \in CallIds, ok \in BOOLEAN :
       RecognizeSettles(c, ok) /\ UNCHANGED <<batchVars, pipeVars, fnVars>>
  \/ \E c \in CallIds : InitAfterTerminate(c) /\ UNCHANGED <<batchVars, pipeVars, fnVars>>
  \/ \E c \in CallIds : InitAfterCreate(c) /\ UNCHANGED <<batchVars, pipeVars, fnVars>>
  \/ \E c \in CallIds : InitFails(c) /\ UNCHANGED <<batchVars, pipeVars, fnVars>>
  \/ \E c \in CallIds : ResumeOwner(c) /\ UNCHANGED <<batchVars, pipeVars, fnVars>>
  \/ \E c \in CallIds : ResumeRecognize(c) /\ UNCHANGED <<batchVars, pipeVars, fnVars>>
  \/ \E c \in CallIds : ResumeResult(c) /\ UNCHANGED <<batchVars, pipeVars, fnVars>>

SpecOcrSeq == InitOcrSeq /\ [][NextOcrSeq]_vars

\* ------------------------------------------------------------------------
\* Inputs
\* ------------------------------------------------------------------------

Letters == <<"A", "B", "C", "D", "E", "F", "G", "H", "I", "J", "K", "L", "M",
             "N", "O", "P">>

\* the j-th line the recognition engine reports: a distinct word in a box
GenLine(j) ==
  [text |-> <<Letters[j], "\n">>,
   confidence |-> 80 + j,
   bbox |-> [x0 |-> 10 * j, y0 |-> 10 + 7 * j,
             x1 |-> 10 * j + 100 + j, y1 |-> 40 + 9 * j],
   baseline |-> NoBaseline]

\* the blocks recognizeImage returns for n such lines
InputBlocks(n) == LinesToBlocks([j \in 1..n |-> GenLine(j)])

\* uploaded images: one within the limit, two beyond it
InputImages ==
  {InputBuffer(1, 800, 600), InputBuffer(2, 3000, 1000),
   InputBuffer(3, 1500, 4000)}

\* the images whose scale a lone translateBlocksParallel call is given
BatchImages == {InputBuffer(1, 800, 600), InputBuffer(2, 3001, 1000)}

\* ------------------------------------------------------------------------
\* Specification of one translateBlocksParallel call
\* ------------------------------------------------------------------------

InitBatch ==
  /\ blocks \in {InputBlocks(n) : n \in 0..MaxBlocks}
  /\ scale \in {PreprocessImage(img).scale : img \in BatchImages}
  /\ fromLang = "en"
  /\ toLang = "es"
  /\ i = 0
  /\ results = <<>>
  /\ batchResults = <<>>
  /\ callState = <<>>
  /\ tbPc = "called"
  /\ OcrInit
  /\ PipeIdle
  /\ FnIdle

NextBatch ==
  \/ TbEnter /\ UNCHANGED <<ocrVars, pipeVars, fnVars>>
  \/ \E j \in DOMAIN callState, ok \in BOOLEAN :
       TbCallSettles(j, ok) /\ UNCHANGED <<ocrVars, pipeVars, fnVars>>
  \/ TbChunkDone /\ UNCHANGED <<ocrVars, pipeVars, fnVars>>

SpecBatch == InitBatch /\ [][NextBatch]_vars

\* ------------------------------------------------------------------------
\* image.ts: translateImage and extractTextFromImage, one request on a
\* freshly loaded module
\*
\* The request's recognizeImage calls are calls 1 and 2 of the recognition
\* model above; the translateBlocksParallel call of translateImage is the
\* batch model above.
\* ------------------------------------------------------------------------

\* what worker.recognize reports (result.data): a line, four results
EngineLine(text, x0, y0, x1, y1, baseline) ==
  [text |-> text, confidence |-> 90,
   bbox |-> [x0 |-> x0, y0 |-> y0, x1 |-> x1, y1 |-> y1],
   baseline |-> baseline]

LineHello == EngineLine(<<"H", "I", "\n">>, 10, 10, 110, 40, NoBaseline)

LineBlank == EngineLine(<<" ", "\n">>, 0, 50, 5, 60, NoBaseline)

LineSecond ==
  EngineLine(<<" ", "Y", "O">>, 21, 70, 333, 101,
             [x0 |-> 21, y0 |-> 95, x1 |-> 333, y1 |-> 96])

\* a line of a carriage return and a no-break space
LineBlankOther == EngineLine(<<"\r", "u00A0">>, 0, 110, 5, 120, NoBaseline)

\* a line between a byte order mark and a carriage return, with a baseline
\* that has an x0 only
LinePartial ==
  EngineLine(<<"uFEFF", "A", "\r", "\n">>, 5, 6, 15, 26, [x0 |-> 7])

EngineOutputs ==
  { \* nothing legible
    [text |-> <<" ", "\n">>, lines |-> <<>>, confidence |-> 0],
    \* one line
    [text |-> <<"H", "I", "\n">>, lines |-> <<LineHello>>, confidence |-> 91],
    \* two lines with a blank one between them
    [text |-> <<"H", "I", "\n", " ", "\n", " ", "Y", "O">>,
     lines |-> <<LineHello, LineBlank, LineSecond>>, confidence |-> 87],
    \* a transcription without any non-blank line
    [text |-> <<"?">>, lines |-> <<LineBlank>>, confidence |-> 12],
    \* other white space, and a baseline reported in part
    [text |-> <<"A">>, lines |-> <<LineBlankOther, LinePartial>>,
     confidence |-> 55],
    \* a result without lines
    [text |-> <<>>, confidence |-> 0] }

\* what detectLanguage may answer
DetectCodes == {"en", "nl", "ja"}

\* the fromLang option of a request (undefined becomes 'auto')
RequestFromLangs == {"auto", "en", "ja"}

\* lines 114-155: the OCRResult recognizeImage builds from the engine's result
\* in call c
OcrResultOf(out, c) ==
  [text |-> out.text,
   blocks |-> IF "lines" \in DOMAIN out THEN LinesToBlocks(out.lines) ELSE <<>>,
   confidence |-> [num |-> out.confidence, den |-> 100],
   language |-> call[c].language]

NoOcr == [none |-> TRUE]

NoRender == [none |-> TRUE]

NoReturn == [none |-> TRUE]

\* translateImage(imageBuffer, {fromLang, toLang}) has been called
NewRequest(img, from, to) ==
  [pc |-> "called", imageBuffer |-> img, fromLang |-> from, toLang |-> to,
   processedBuffer |-> img, scale |-> ScaleOne, effectiveFromLang |-> from,
   quickOcr |-> NoOcr, ocrResult |-> NoOcr, detectCalls |-> 0,
   render |-> NoRender, ret |-> NoReturn]

\* number of recognizeImage calls made so far
RecognizeCalls == Cardinality({c \in CallIds : call[c].pc # "idle"})

\* a comparison of native codes in place of the code's comparison
ReuseWhenSameNativeCode(detected) == mapLanguage(detected) = mapLanguage("eng")

\* line 54: effectiveFromLang === 'en'
ReuseQuickOcr(detected) == detected = "en"

\* an early return that hands back the buffer that was recognized
ZeroBlocksImageProcessed(imageBuffer, processedBuffer) == processedBuffer

\* line 76: image: imageBuffer
ZeroBlocksImage(imageBuffer, processedBuffer) == imageBuffer

\* translatedBlocks.map(b => ({ original: b.text, translated: b.translatedText }))
Translations(tbs) ==
  [k \in 1..Len(tbs) |->
     [original |-> tbs[k].text, translated |-> tbs[k].translatedText]]

\* lines 40: the request starts; preprocessImage awaits sharp
TiStart ==
  /\ ti.pc = "called"
  /\ ti' = [ti EXCEPT !.pc = "preprocess"]
  /\ UNCHANGED <<batchVars, ocrVars>>

\* lines 40-48, 67-70: preprocessImage returned; the first recognizeImage call
TiPreprocessed ==
  /\ ti.pc = "preprocess"
  /\ mq = <<>>
  /\ LET pre == PreprocessImage(ti.imageBuffer)
     IN /\ ti' = [ti EXCEPT !.pc = IF ti.fromLang = "auto" THEN "quickOcr" ELSE "ocr",
                            !.processedBuffer = pre.processedBuffer,
                            !.scale = pre.scale]
        /\ StartCall(1, IF ti.fromLang = "auto" THEN "eng" ELSE ti.fromLang)
  /\ UNCHANGED batchVars

\* sharp rejects (metadata or resize): the request fails
TiPreprocessFails ==
  /\ ti.pc = "preprocess"
  /\ ti' = [ti EXCEPT !.pc = "threw"]
  /\ UNCHANGED <<batchVars, ocrVars>>

\* lines 73-90: the OCR result is settled; return early or start translating
AfterOcr(t, ocr, eff) ==
  IF Len(ocr.blocks) = 0
  THEN /\ ti' = [t EXCEPT !.pc = "returned",
                          !.ocrResult = ocr,
                          !.effectiveFromLang = eff,
                          !.ret = [image |-> ZeroBlocksImage(t.imageBuffer,
                                                             t.processedBuffer),
                                   ocrResult |-> ocr,
                                   translations |-> <<>>]]
       /\ UNCHANGED batchVars
  ELSE /\ ti' = [t EXCEPT !.pc = "translate",
                          !.ocrResult = ocr,
                          !.effectiveFromLang = eff]
       /\ TbCall(ocr.blocks, eff, t.toLang, t.scale)

\* lines 48-50, 62-66: the quick OCR returned; detect the language or, for
\* an empty transcription, go on with it
TiQuickOcrDone(out) ==
  /\ ti.pc = "quickOcr"
  /\ call[1].pc = "returned"
  /\ mq = <<>>
  /\ LET quick == OcrResultOf(out, 1)
     IN IF Trim(quick.text) # <<>>
        THEN /\ ti' = [ti EXCEPT !.pc = "detect", !.quickOcr = quick,
                                 !.detectCalls = @ + 1]
             /\ UNCHANGED batchVars
        ELSE AfterOcr([ti EXCEPT !.quickOcr = quick], quick, "en")
  /\ UNCHANGED ocrVars

\* lines 50-61: detectLanguage returned; reuse the quick OCR or recognize again
TiDetected(detected) ==
  /\ ti.pc = "detect"
  /\ mq = <<>>
  /\ IF ReuseQuickOcr(detected)
     THEN /\ AfterOcr(ti, ti.quickOcr, detected)
          /\ UNCHANGED ocrVars
     ELSE /\ ti' = [ti EXCEPT !.pc = "ocr", !.effectiveFromLang = detected]
          /\ StartCall(2, detected)
          /\ UNCHANGED batchVars

\* lines 60, 70: the recognizeImage call whose result is ocrResult returned
TiOcrDone(out) ==
  /\ ti.pc = "ocr"
  /\ \E c \in CallIds :
       /\ call[c].pc = "returned"
       /\ \A d \in CallIds : d > c => call[d].pc = "idle"
       /\ AfterOcr(ti, OcrResultOf(out, c), ti.effectiveFromLang)
  /\ mq = <<>>
  /\ UNCHANGED ocrVars

\* line 50: detectLanguage rejects; nothing catches it and the request fails
TiDetectFails ==
  /\ ti.pc = "detect"
  /\ ti' = [ti EXCEPT !.pc = "threw"]
  /\ UNCHANGED <<batchVars, ocrVars>>

\* a recognizeImage call threw: the request fails
TiRecognizeThrew ==
  /\ ti.pc \in {"quickOcr", "ocr"}
  /\ \E c \in CallIds : call[c].pc = "threw"
  /\ mq = <<>>
  /\ ti' = [ti EXCEPT !.pc = "threw"]
  /\ UNCHANGED <<batchVars, ocrVars>>

\* lines 85-103: translateBlocksParallel returned; the renderer is called
\* with the original buffer and the translated blocks
TiTranslated ==
  /\ ti.pc = "translate"
  /\ tbPc = "returned"
  /\ ti' = [ti EXCEPT !.pc = "render",
                      !.render = [imageBuffer |-> ti.imageBuffer,
                                  blocks |-> results]]
  /\ UNCHANGED <<batchVars, ocrVars>>

\* lines 99-111: the renderer returned (ok) or threw
TiRendered(ok) ==
  /\ ti.pc = "render"
  /\ ti' = IF ok
           THEN [ti EXCEPT !.pc = "returned",
                           !.ret = [image |-> [kind |-> "rendered",
                                               id |-> ti.imageBuffer.id,
                                               width |-> ti.imageBuffer.width,
                                               height |-> ti.imageBuffer.height],
                                    ocrResult |-> ti.ocrResult,
                                    translations |-> Translations(results)]]
           ELSE [ti EXCEPT !.pc = "threw"]
  /\ UNCHANGED <<batchVars, ocrVars>>

\* extractTextFromImage(imageBuffer, language) has been called
NewExtract(img, language) ==
  [pc |-> "called", imageBuffer |-> img, language |-> language,
   effectiveLang |-> language, quickOcr |-> NoOcr, detectCalls |-> 0,
   ret |-> NoReturn]

\* lines 121-125, 133: the first recognizeImage call, on the buffer as it was
\* passed in: with 'eng' for 'auto', else with the language asked for
EtStart ==
  /\ et.pc = "called"
  /\ et' = [et EXCEPT !.pc = IF et.language = "auto" THEN "quickOcr" ELSE "ocr"]
  /\ StartCall(1, IF et.language = "auto" THEN "eng" ELSE et.language)
  /\ UNCHANGED <<ti, batchVars>>

\* lines 125-130, 133: the quick OCR returned; detect the language or, for
\* an empty transcription, recognize again with 'en'
EtQuickOcrDone(out) ==
  /\ et.pc = "quickOcr"
  /\ call[1].pc = "returned"
  /\ mq = <<>>
  /\ LET quick == OcrResultOf(out, 1)
     IN IF Trim(quick.text) # <<>>
        THEN /\ et' = [et EXCEPT !.pc = "detect", !.quickOcr = quick,
                                 !.detectCalls = @ + 1]
             /\ UNCHANGED ocrVars
        ELSE /\ et' = [et EXCEPT !.pc = "ocr", !.quickOcr = quick,
                                 !.effectiveLang = "en"]
             /\ StartCall(2, "en")
  /\ UNCHANGED <<ti, batchVars>>

\* lines 127, 133: detectLanguage returned; recognize again with its answer
EtDetected(detected) ==
  /\ et.pc = "detect"
  /\ mq = <<>>
  /\ et' = [et EXCEPT !.pc = "ocr", !.effectiveLang = detected]
  /\ StartCall(2, detected)
  /\ UNCHANGED <<ti, batchVars>>

\* line 127: detectLanguage rejects and the request fails
EtDetectFails ==
  /\ et.pc = "detect"
  /\ et' = [et EXCEPT !.pc = "threw"]
  /\ UNCHANGED <<ti, batchVars, ocrVars>>

\* line 133: the last recognizeImage call returned, and its result is the
\* request's
EtOcrDone(out) ==
  /\ et.pc = "ocr"
  /\ \E c \in CallIds :
       /\ call[c].pc = "returned"
       /\ \A d \in CallIds : d > c => call[d].pc = "idle"
       /\ et' = [et EXCEPT !.pc = "returned", !.ret = OcrResultOf(out, c)]
  /\ mq = <<>>
  /\ UNCHANGED <<ti, batchVars, ocrVars>>

\* a recognizeImage call threw: the request fails
EtRecognizeThrew ==
  /\ et.pc \in {"quickOcr", "ocr"}
  /\ \E c \in CallIds : call[c].pc = "threw"
  /\ mq = <<>>
  /\ et' = [et EXCEPT !.pc = "threw"]
  /\ UNCHANGED <<ti, batchVars, ocrVars>>

\* one request: translateImage or extractTextFromImage
InitImage ==
  /\ OcrInit
  /\ BatchIdle
  /\ FnIdle
  /\ \/ /\ ti \in {NewRequest(img, from, "es") :
                     img \in InputImages, from \in RequestFromLangs}
        /\ et = NoRequest
     \/ /\ ti = NoRequest
        /\ et \in {NewExtract(img, language) :
                     img \in InputImages, language \in RequestFromLangs}

NextImage ==
  \/ TiStart /\ UNCHANGED <<et, fnVars>>
  \/ TiPreprocessed /\ UNCHANGED <<et, fnVars>>
  \/ TiPreprocessFails /\ UNCHANGED <<et, fnVars>>
  \/ \E out \in EngineOutputs : TiQuickOcrDone(out) /\ UNCHANGED <<et, fnVars>>
  \/ \E detected \in DetectCodes : TiDetected(detected) /\ UNCHANGED <<et, fnVars>>
  \/ TiDetectFails /\ UNCHANGED <<et, fnVars>>
  \/ \E out \in EngineOutputs : TiOcrDone(out) /\ UNCHANGED <<et, fnVars>>
  \/ TiRecognizeThrew /\ UNCHANGED <<et, fnVars>>
  \/ TiTranslated /\ UNCHANGED <<et, fnVars>>
  \/ \E ok \in BOOLEAN : TiRendered(ok) /\ UNCHANGED <<et, fnVars>>
  \/ EtStart /\ UNCHANGED fnVars
  \/ \E out \in EngineOutputs : EtQuickOcrDone(out) /\ UNCHANGED fnVars
  \/ \E detected \in DetectCodes : EtDetected(detected) /\ UNCHANGED fnVars
  \/ EtDetectFails /\ UNCHANGED fnVars
  \/ \E out \in EngineOutputs : EtOcrDone(out) /\ UNCHANGED fnVars
  \/ EtRecognizeThrew /\ UNCHANGED fnVars
  \/ \E j \in DOMAIN callState, ok \in BOOLEAN :
       TbCallSettles(j, ok) /\ UNCHANGED <<ocrVars, pipeVars, fnVars>>
  \/ TbChunkDone /\ UNCHANGED <<ocrVars, pipeVars, fnVars>>
  \/ \E c \in CallIds, ok \in BOOLEAN :
       TerminateSettles(c, ok) /\ UNCHANGED <<batchVars, pipeVars, fnVars>>
  \/ \E c \in CallIds, ok \in BOOLEAN :
       CreateSettles(c, ok) /\ UNCHANGED <<batchVars, pipeVars, fnVars>>
  \/ \E c \in CallIds, ok \in BOOLEAN :
       RecognizeSettles(c, ok) /\ UNCHANGED <<batchVars, pipeVars, fnVars>>
  \/ \E c \in CallIds : InitAfterTerminate(c) /\ UNCHANGED <<batchVars, pipeVars, fnVars>>
  \/ \E c \in CallIds : InitAfterCreate(c) /\ UNCHANGED <<batchVars, pipeVars, fnVars>>
  \/ \E c \in CallIds : InitFails(c) /\ UNCHANGED <<batchVars, pipeVars, fnVars>>
  \/ \E c \in CallIds : ResumeOwner(c) /\ UNCHANGED <<batchVars, pipeVars, fnVars>>
  \/ \E c \in CallIds : ResumeRecognize(c) /\ UNCHANGED <<batchVars, pipeVars, fnVars>>
  \/ \E c \in CallIds : ResumeResult(c) /\ UNCHANGED <<batchVars, pipeVars, fnVars>>

SpecImage == InitImage /\ [][NextImage]_vars

\* ------------------------------------------------------------------------
\* Specification of one translateBlocksParallel call on one recognized line,
\* over many boxes and scales
\* ------------------------------------------------------------------------

\* left and top edges of a line's box in the recognized image
RescaleOrigins == {0, 10, 11, 999, 1000, 1998}

\* widths of a line's box
RescaleWidths == {1, 2, 100}

\* heights of a line's box
RescaleHeights == {1, 2, 15, 16, 29, 30}

\* a baseline the engine reports
SomeBaseline == [x0 |-> 10, y0 |-> 38, x1 |-> 110, y1 |-> 39]

\* the lines the recognition engine reports
RescaleLines ==
  {[text |-> <<" ", "A", "\n">>,
    confidence |-> 87,
    bbox |-> [x0 |-> x0, y0 |-> y0, x1 |-> x0 + w, y1 |-> y0 + h],
    baseline |-> bl] :
     x0 \in {0, 10, 1998}, y0 \in RescaleOrigins, w \in RescaleWidths,
     h \in RescaleHeights, bl \in {NoBaseline, SomeBaseline}}

\* uploaded images: one within the limit, the others beyond it by one pixel
\* and by more; 100 / (2000 / 2410) is 120.5 and the double quotient rounds
\* to 120
RescaleImages ==
  {InputBuffer(1, 800, 600), InputBuffer(2, 2001, 10), InputBuffer(3, 2002, 2001),
   InputBuffer(4, 1000, 2500), InputBuffer(5, 3000, 1000),
   InputBuffer(6, 1500, 4000), InputBuffer(7, 6000, 6000),
   InputBuffer(8, 2410, 1000)}

InitRescale ==
  /\ blocks \in {LinesToBlocks(<<line>>) : line \in RescaleLines}
  /\ scale \in {PreprocessImage(img).scale : img \in RescaleImages}
  /\ fromLang = "en"
  /\ toLang = "es"
  /\ i = 0
  /\ results = <<>>
  /\ batchResults = <<>>
  /\ callState = <<>>
  /\ tbPc = "called"
  /\ OcrInit
  /\ PipeIdle
  /\ FnIdle

NextRescale ==
  \/ TbEnter /\ UNCHANGED <<ocrVars, pipeVars, fnVars>>
  \/ \E j \in DOMAIN callState, ok \in BOOLEAN :
       TbCallSettles(j, ok) /\ UNCHANGED <<ocrVars, pipeVars, fnVars>>
  \/ TbChunkDone /\ UNCHANGED <<ocrVars, pipeVars, fnVars>>

SpecRescale == InitRescale /\ [][NextRescale]_vars

\* ------------------------------------------------------------------------
\* Specification of renderTranslatedImageSimple on one block
\* ------------------------------------------------------------------------

\* a translated text of n characters
RenderText(n) == [k \in 1..n |-> Letters[((k - 1) % Len(Letters)) + 1]]

\* translated texts: every length up to MaxTextLen, a long one, a blank one
RenderTexts ==
  {RenderText(n) : n \in (0..MaxTextLen) \cup {30}} \cup {<<" ", "\n">>}

\* bbox.x1 - bbox.x0 of the blocks
RenderWidths == {0, 1, 18, 21, 50, 100}

\* bbox.y1 - bbox.y0 of the blocks
RenderHeights == {1, 11, 45}

\* fontSize of the blocks
RenderFontSizes == {6, 8, 14, 35}

\* the fields of a TranslatedBlock the loop body reads
RenderBlocks ==
  {[bbox |-> [x0 |-> 10, y0 |-> 15, x1 |-> 10 + w, y1 |-> 15 + h],
    fontSize |-> f,
    translatedText |-> t] :
     w \in RenderWidths, h \in RenderHeights, f \in RenderFontSizes,
     t \in RenderTexts}

\* the loop of renderTranslatedImageSimple has taken a block
NewSimpleRender(block) ==
  [pc |-> "block", block |-> block, blockWidth |-> 0, blockHeight |-> 0,
   adjustedFontSize |-> DblZero, drawn |-> <<>>]

\* line 131: if (!block.translatedText.trim()) continue
RsSkip ==
  /\ rs.pc = "block"
  /\ Trim(rs.block.translatedText) = <<>>
  /\ rs' = [rs EXCEPT !.pc = "skipped"]

\* lines 133-138: blockWidth, blockHeight, adjustedFontSize
RsFontSize ==
  /\ rs.pc = "block"
  /\ Trim(rs.block.translatedText) # <<>>
  /\ LET bbox == rs.block.bbox
         blockWidth == Max(1, bbox.x1 - bbox.x0)
         blockHeight == Max(1, bbox.y1 - bbox.y0)
     IN rs' = [rs EXCEPT
                 !.pc = "sized",
                 !.blockWidth = blockWidth,
                 !.blockHeight = blockHeight,
                 !.adjustedFontSize =
                   CalculateFontSize(rs.block.translatedText, blockWidth,
                                     blockHeight, rs.block.fontSize)]

\* line 150: the string put into the text element, before escapeHtml
RsTruncate ==
  /\ rs.pc = "sized"
  /\ rs' = [rs EXCEPT
              !.pc = "drawn",
              !.drawn = TruncateText(rs.block.translatedText, rs.blockWidth,
                                     rs.adjustedFontSize)]

InitRender ==
  /\ rs \in {NewSimpleRender(block) : block \in RenderBlocks}
  /\ BatchIdle
  /\ OcrInit
  /\ PipeIdle
  /\ PreIdle
  /\ KeyIdle
  /\ CacheIdle
  /\ TermIdle

NextRender ==
  \/ RsSkip
       /\ UNCHANGED <<batchVars, ocrVars, pipeVars, preVars, keyVars, cacheVars, termVars>>
  \/ RsFontSize
       /\ UNCHANGED <<batchVars, ocrVars, pipeVars, preVars, keyVars, cacheVars, termVars>>
  \/ RsTruncate
       /\ UNCHANGED <<batchVars, ocrVars, pipeVars, preVars, keyVars, cacheVars, termVars>>

SpecRender == InitRender /\ [][NextRender]_vars

\* ------------------------------------------------------------------------
\* Specification of one preprocessImage call
\*
\* Among the sides are 76 and 2432: 76 * 2000 / 2432 is 62.5, and the double
\* product rounds to 62.
\* ------------------------------------------------------------------------

\* metadata.width || 0 and metadata.height || 0 of the images the function
\* is called with (0: the metadata has no such entry)
Sides ==
  {0, 1, 2, 76, 999, 1999, MAX_IMAGE_DIMENSION, MAX_IMAGE_DIMENSION + 1, 2002,
   2432, 2500, 3000, 3001, 4000, 4001, 5999, MaxSide}

\* preprocessImage(imageBuffer) has been called: sharp reads the metadata
NewPreprocess(buf) == [pc |-> "called", imageBuffer |-> buf, out |-> NoReturn]

\* lines 140-156: the metadata arrived; the buffer is returned as it is, or
\* the resize to the computed target is started
PpMetadata ==
  /\ pp.pc = "called"
  /\ LET out == PreprocessImage(pp.imageBuffer)
     IN pp' = [pp EXCEPT !.pc = IF out.processedBuffer = pp.imageBuffer
                                 THEN "returned" ELSE "resizing",
                         !.out = out]

\* lines 156-160: the resized buffer arrived and is returned with the scale
PpResized ==
  /\ pp.pc = "resizing"
  /\ pp' = [pp EXCEPT !.pc = "returned"]

\* sharp rejects (unreadable metadata, failed resize): the call throws
PpRejects ==
  /\ pp.pc \in {"called", "resizing"}
  /\ pp' = [pp EXCEPT !.pc = "threw", !.out = NoReturn]

InitPre ==
  /\ OcrInit
  /\ BatchIdle
  /\ PipeIdle
  /\ KeyIdle
  /\ CacheIdle
  /\ TermIdle
  /\ RenderIdle
  /\ pp \in {NewPreprocess(InputBuffer(1, w, h)) : w \in Sides, h \in Sides}

NextPre ==
  \/ PpMetadata /\ UNCHANGED <<batchVars, ocrVars, pipeVars, keyVars, cacheVars, termVars, renderVars>>
  \/ PpResized /\ UNCHANGED <<batchVars, ocrVars, pipeVars, keyVars, cacheVars, termVars, renderVars>>
  \/ PpRejects /\ UNCHANGED <<batchVars, ocrVars, pipeVars, keyVars, cacheVars, termVars, renderVars>>

SpecPre == InitPre /\ [][NextPre]_vars

\* ------------------------------------------------------------------------
\* Specification of getCacheKey, called repeatedly with the same arguments
\* ------------------------------------------------------------------------

\* a string of n characters ch
Repeat(ch, n) == [k \in 1..n |-> ch]

\* the arguments of a translation call: from, to, text, html
TranslateArgs(from, to, text, html) ==
  <<Str(from), Str(to), Str(text), Bool(html)>>

\* lengths of the text argument: the short ones, and those that bring the
\* joined arguments to 199, 200, 201, 202 and 500 characters
TextLens == (0..MaxShortText) \cup {187, 188, 189, 190, 488}

\* argument lists getCacheKey is called with
KeyArgs ==
  {TranslateArgs(<<"e", "n">>, <<"e", "s">>, Repeat("q", n), FALSE) :
     n \in TextLens}
  \cup {<<>>,
        <<Num(42), Num(0 - 7), Bool(TRUE), [t |-> "null"], [t |-> "undefined"]>>}

\* getCacheKey(args) is called once more
KeyCall ==
  /\ Len(gk.keys) < MaxKeyCalls
  /\ gk' = [gk EXCEPT !.keys = Append(@, GetCacheKey(gk.args))]

InitKey ==
  /\ OcrInit
  /\ BatchIdle
  /\ PipeIdle
  /\ PreIdle
  /\ CacheIdle
  /\ TermIdle
  /\ RenderIdle
  /\ gk \in {[args |-> a, keys |-> <<>>] : a \in KeyArgs}

NextKey ==
  KeyCall /\ UNCHANGED <<batchVars, ocrVars, pipeVars, preVars, cacheVars, termVars, renderVars>>

SpecKey == InitKey /\ [][NextKey]_vars

\* ------------------------------------------------------------------------
\* Specification of the cache: readCache and writeCache calls in any order
\* ------------------------------------------------------------------------

\* values of config.cacheSize
CacheSizes == (0 - 1)..MaxCacheSize

\* argument lists of readCache and writeCache; the last two differ and are
\* joined to the same string
CacheArgs ==
  {TranslateArgs(<<"e", "n">>, <<"e", "s">>, <<"h", "i">>, FALSE),
   TranslateArgs(<<"e", "n">>, <<"e", "s">>, <<"h", "i">>, TRUE),
   TranslateArgs(<<"e", "n">>, <<"f", "r">>, <<"y", "o">>, FALSE),
   TranslateArgs(<<"e", "n">>, <<"e", "s">>, <<"h", NUL, "i">>, FALSE),
   TranslateArgs(<<"e", "n">>, <<"e", "s", NUL, "h">>, <<"i">>, FALSE)}

\* results written to the cache: two translations and the empty string
CacheResults == {<<>>, <<"h", "o", "l", "a">>, <<"s", "i">>}

\* lines 34-41: readCache(args)
ReadCache(args) ==
  /\ Len(cacheLog) < MaxCacheOps
  /\ IF CacheDisabled(cacheSize)
     THEN /\ cache' = cache
          /\ cacheLog' = Append(cacheLog,
                                [op |-> "read", args |-> args, ret |-> Null])
     ELSE LET key == GetCacheKey(args)
          IN /\ cache' = LruAfterGet(cache, key)
             /\ cacheLog' = Append(cacheLog,
                                   [op |-> "read", args |-> args,
                                    ret |-> GetOrNull(cache, key)])
  /\ UNCHANGED cacheSize

\* lines 43-50: writeCache(result, args)
WriteCache(result, args) ==
  /\ Len(cacheLog) < MaxCacheOps
  /\ IF CacheDisabled(cacheSize)
     THEN cache' = cache
     ELSE cache' = LruAfterSet(cache, GetCacheKey(args), result,
                               CacheMax(cacheSize))
  /\ cacheLog' = Append(cacheLog,
                        [op |-> "write", args |-> args, result |-> result])
  /\ UNCHANGED cacheSize

InitCache ==
  /\ OcrInit
  /\ BatchIdle
  /\ PipeIdle
  /\ PreIdle
  /\ KeyIdle
  /\ TermIdle
  /\ RenderIdle
  /\ cacheSize \in CacheSizes
  /\ cache = <<>>
  /\ cacheLog = <<>>

NextCache ==
  \/ \E args \in CacheArgs :
       ReadCache(args)
         /\ UNCHANGED <<batchVars, ocrVars, pipeVars, preVars, keyVars, termVars, renderVars>>
  \/ \E result \in CacheResults, args \in CacheArgs :
       WriteCache(result, args)
         /\ UNCHANGED <<batchVars, ocrVars, pipeVars, preVars, keyVars, termVars, renderVars>>

SpecCache == InitCache /\ [][NextCache]_vars

\* ------------------------------------------------------------------------
\* Claims about translateBlocksParallel (checked under SpecBatch)
\* ------------------------------------------------------------------------

Inflight == {j \in DOMAIN callState : callState[j] = "inflight"}

\* 0-based number of the chunk that holds block j (1-based)
ChunkOf(j) == (j - 1) \div MAX_CONCURRENT_TRANSLATIONS

\* C1: whatever calls failed and in whatever order they completed, the
\* returned sequence has one TranslatedBlock per input block, in input order
\* (same length, results[k].text = blocks[k].text)
C1_OrderPreserved ==
  tbPc = "returned" =>
    /\ Len(results) = Len(blocks)
    /\ \A k \in 1..Len(blocks) : results[k].text = blocks[k].text

\* a returned batch of more than one chunk, with a failure between successes
C1_Witness ==
  /\ tbPc = "returned"
  /\ Len(blocks) > MAX_CONCURRENT_TRANSLATIONS
  /\ callState[1] = "ok"
  /\ callState[2] = "failed"
  /\ callState[3] = "ok"
  /\ callState[Len(blocks)] = "ok"

\* C2: failed calls never fail the batch: it can always go on until it has
\* returned; every failed block is emitted with its original text as
\* translatedText and the input block's bbox, fontSize and lineHeight; every
\* other block is emitted as it would be had no call failed
C2_FailureIsolated ==
  /\ tbPc = "returned" \/ ENABLED NextBatch
  /\ tbPc = "returned" =>
       /\ Len(results) = Len(blocks)
       /\ \A k \in 1..Len(blocks) :
            /\ callState[k] = "failed" =>
                 /\ results[k].translatedText = blocks[k].text
                 /\ results[k].bbox = blocks[k].bbox
                 /\ results[k].fontSize = blocks[k].fontSize
                 /\ results[k].lineHeight = blocks[k].lineHeight
            /\ callState[k] = "ok" =>
                 results[k] = TranslatedOk(blocks[k], fromLang, toLang, scale)

\* a returned batch on a downsampled image in which every call of the first
\* chunk but one failed
C2_Witness ==
  /\ tbPc = "returned"
  /\ ScaleIsNotOne(scale)
  /\ Len(blocks) > MAX_CONCURRENT_TRANSLATIONS
  /\ callState[1] = "ok"
  /\ \A k \in 2..MAX_CONCURRENT_TRANSLATIONS : callState[k] = "failed"

\* C3: at every moment at most K = 10 translation calls are issued and not
\* yet completed
C3_BoundedFanOut == Cardinality(Inflight) <= MAX_CONCURRENT_TRANSLATIONS

\* a full chunk in flight while more blocks are waiting
C3_Witness ==
  /\ Cardinality(Inflight) = MAX_CONCURRENT_TRANSLATIONS
  /\ \E j \in DOMAIN callState : callState[j] = "new"

\* C4: no call of chunk c+1 is issued before every call of chunk c has
\* completed, by success or by failure
C4_ChunksSequential ==
  \A j, k \in DOMAIN callState :
    (ChunkOf(k) = ChunkOf(j) + 1 /\ callState[k] # "new")
      => callState[j] \in {"ok", "failed"}

\* the second chunk is in flight after a first chunk with a failed call
C4_Witness ==
  /\ \E k \in Inflight : ChunkOf(k) = 1
  /\ \E j \in DOMAIN callState : ChunkOf(j) = 0 /\ callState[j] = "failed"

\* ------------------------------------------------------------------------
\* Claims about the recognition worker (checked under SpecOcr)
\* ------------------------------------------------------------------------

\* workers created, or being created, and not yet terminated
WorkersInExistence ==
  {w \in CallIds : wk[w] \in {"creating", "live", "terminating"}}

\* C5: under any interleaving of recognizeImage calls at most one worker has
\* been created (or is being created) and is not yet terminated
C5_SingleWorker == Cardinality(WorkersInExistence) <= 1

\* three calls overlap: the second and third waited for the first call's
\* initialization and both went on to replace its worker
C5_Scenario ==
  /\ worker = 0
  /\ wk[1] = "terminated"
  /\ wk[2] = "creating"
  /\ wk[3] = "creating"

\* C6: the worker on which a call's recognition runs was created for
\* mapLanguage of the call's language
C6_WorkerMatchesLanguage ==
  \A c \in CallIds :
    call[c].used # 0 => WorkerLang(call[c].used) = mapLanguage(call[c].lang)

\* a call recognizes on a worker that another call created, for a language
\* code that differs from its own but maps to the same native code, after a
\* third call had switched the worker to another language in between
C6_Witness ==
  \E c, d, e \in CallIds :
    /\ call[c].pc = "recognizing"
    /\ call[c].used = d
    /\ d # c
    /\ call[d].lang # call[c].lang
    /\ wk[e] = "terminated"
    /\ WorkerLang(e) # WorkerLang(d)

\* call c's resumption is in the microtask queue
Queued(c) == \E k \in 1..Len(mq) : mq[k] = [kind |-> "call", id |-> c]

\* C7: when an initialization fails (terminate or createWorker throws)
\*  - the error reaches every call awaiting it: the call that started it and
\*    the calls that waited for it end by throwing it;
\*  - initPromise is null when the error reaches them, and never holds a
\*    promise that has settled, so no later call waits for a failed attempt;
\*  - a call whose own initialization attempt succeeds goes on to recognize:
\*    it fails neither with an initialization error nor with 'OCR worker not
\*    initialized'
C7_InitFailureRecoverable ==
  /\ \A p \in CallIds :
       pstate[p] = "rejected" =>
         \A k \in 1..Len(waiters[p]) :
           \/ Queued(waiters[p][k]) /\ initPromise = 0
           \/ /\ call[waiters[p][k]].pc = "threw"
              /\ call[waiters[p][k]].err = "init"
  /\ initPromise # 0 => pstate[initPromise] = "pending"
  /\ \A c \in CallIds :
       call[c].pc = "awaitInFlight" =>
         pstate[call[c].awaiting] = "pending" \/ Queued(c)
  /\ \A c \in CallIds :
       pstate[c] = "fulfilled" =>
         \/ call[c].pc = "awaitOwn" /\ Queued(c)
         \/ call[c].pc = "resume" /\ Queued(c) /\ worker # 0
         \/ call[c].pc \in {"recognizing", "recognizeOk", "returned"}
         \/ call[c].pc = "recognizeErr" /\ Queued(c)
         \/ call[c].pc = "threw" /\ call[c].err = "recognize"

\* the first call's createWorker failed and the call threw; the second call,
\* made afterwards, started an initialization of its own and returned a result
C7_Witness ==
  /\ init[1].pc = "failed"
  /\ call[1].pc = "threw"
  /\ call[1].err = "init"
  /\ initPromise = 0
  /\ call[2].awaiting = 0
  /\ pstate[2] = "fulfilled"
  /\ call[2].pc = "returned"

\* the same after a failed worker.terminate(): the third call replaces the
\* worker the second call could not terminate
C7_WitnessTerminate ==
  /\ call[1].pc = "returned"
  /\ init[2].pc = "failed"
  /\ init[2].target = 1
  /\ call[2].err = "init"
  /\ call[3].awaiting = 0
  /\ pstate[3] = "fulfilled"
  /\ call[3].pc = "returned"

\* ------------------------------------------------------------------------
\* Claims about translateImage (checked under SpecImage)
\* ------------------------------------------------------------------------

\* an 'auto' translateImage request whose quick transcription was not empty
\* and whose language detection has returned (effectiveFromLang is the
\* detected code)
DetectionDone ==
  /\ ti.pc # "none"
  /\ ti.fromLang = "auto"
  /\ ti.detectCalls = 1
  /\ ti.effectiveFromLang \in DetectCodes

\* C8 as stated: with fromLang = 'auto' and a non-empty quick transcription,
\* when the detected language maps to the default language's native code (eng)
\* the quick OCR result is reused and recognition is invoked exactly once;
\* recognition is invoked a second time only when the native codes differ
C8_ReuseWhenNativeCodesEqual ==
  DetectionDone =>
    /\ mapLanguage(ti.effectiveFromLang) = mapLanguage("eng") =>
         /\ RecognizeCalls = 1
         /\ ti.ocrResult = ti.quickOcr
    /\ RecognizeCalls = 2 =>
         mapLanguage(ti.effectiveFromLang) # mapLanguage("eng")

\* C8 as amended: the quick OCR result is reused, and recognition invoked
\* exactly once, when the detected code is exactly 'en'; for every other
\* detected code, also one that maps to eng, recognition is invoked a second
\* time
C8_ReuseWhenDetectedEn ==
  DetectionDone =>
    /\ ti.effectiveFromLang = "en" =>
         /\ RecognizeCalls = 1
         /\ ti.ocrResult = ti.quickOcr
    /\ ti.effectiveFromLang # "en" => RecognizeCalls = 2

\* a request returned after the detector answered 'nl': a second recognition
\* ran, on the same eng worker as the first
C8_Witness ==
  /\ DetectionDone
  /\ ti.pc = "returned"
  /\ ti.effectiveFromLang = "nl"
  /\ mapLanguage("nl") = mapLanguage("eng")
  /\ call[2].pc = "returned"
  /\ call[2].used = call[1].used

\* C9: when the OCR result translateImage goes on with has no blocks, the
\* request returns the original input buffer, that OCR result and an empty
\* translations list, and neither translates nor renders
C9_ZeroBlocksShortCircuit ==
  (ti.pc # "none" /\ ti.ocrResult # NoOcr /\ Len(ti.ocrResult.blocks) = 0) =>
    /\ ti.pc = "returned"
    /\ ti.ret = [image |-> ti.imageBuffer,
                 ocrResult |-> ti.ocrResult,
                 translations |-> <<>>]
    /\ ti.imageBuffer.kind = "input"
    /\ tbPc = "idle"
    /\ ti.render = NoRender

\* a downsampled image whose transcription is not empty but has no
\* non-blank line: returned early, after language detection
C9_Witness ==
  /\ ti.pc = "returned"
  /\ ti.ocrResult # NoOcr
  /\ Len(ti.ocrResult.blocks) = 0
  /\ Trim(ti.ocrResult.text) # <<>>
  /\ ti.processedBuffer # ti.imageBuffer
  /\ ti.detectCalls = 1

\* a bbox of the recognized (downsampled) image in the original image's
\* coordinates
Reprojected(bbox, s) ==
  [x0 |-> RoundDivScale(bbox.x0, s), y0 |-> RoundDivScale(bbox.y0, s),
   x1 |-> RoundDivScale(bbox.x1, s), y1 |-> RoundDivScale(bbox.y1, s)]

\* C10: when the image was downsampled, every block handed to the renderer
\* has its bbox in the original image's coordinates (the OCR bbox divided by
\* scale and rounded), whatever the outcome of its translation call
C10_RenderedGeometryReprojected ==
  (ti.pc # "none" /\ ti.render # NoRender /\ ScaleIsNotOne(ti.scale)) =>
    \A k \in 1..Len(ti.render.blocks) :
      ti.render.blocks[k].bbox = Reprojected(ti.ocrResult.blocks[k].bbox, ti.scale)

\* ------------------------------------------------------------------------
\* Claims about preprocessImage (checked under SpecPre)
\* ------------------------------------------------------------------------

\* longest side of an image buffer
LongestSide(buf) == Max(buf.width, buf.height)

\* r is an integer nearest to a / b (b > 0); for a / b exactly halfway
\* between two integers both neighbours are nearest
NearestInteger(r, a, b) ==
  /\ 2 * (r * b - a) <= b
  /\ 2 * (a - r * b) <= b

\* C11: for every width and height, the processed image preprocessImage
\* returns has longest side min(longestSide, 2000): when the longest side is
\* at most 2000 the very same buffer is returned with scale 1; otherwise scale
\* is 2000 / longestSide, the resize target is (round(width * scale),
\* round(height * scale)), each an integer nearest to the product, its longest
\* side is exactly 2000, and neither side is larger than in the input
C11_LongestSideCapped ==
  pp.pc = "returned" =>
    LET buf == pp.imageBuffer
        out == pp.out
    IN /\ LongestSide(out.processedBuffer)
            = Min(LongestSide(buf), MAX_IMAGE_DIMENSION)
       /\ LongestSide(buf) <= MAX_IMAGE_DIMENSION =>
            /\ out.processedBuffer = buf
            /\ out.scale = ScaleOne
       /\ LongestSide(buf) > MAX_IMAGE_DIMENSION =>
            /\ out.scale.num * LongestSide(buf)
                 = MAX_IMAGE_DIMENSION * out.scale.den
            /\ out.processedBuffer.kind = "resized"
            /\ NearestInteger(out.processedBuffer.width,
                              buf.width * out.scale.num, out.scale.den)
            /\ NearestInteger(out.processedBuffer.height,
                              buf.height * out.scale.num, out.scale.den)
            /\ LongestSide(out.processedBuffer) = MAX_IMAGE_DIMENSION
       /\ out.processedBuffer.width <= buf.width
       /\ out.processedBuffer.height <= buf.height

\* a tall image just over the limit in one direction has been resized: its
\* width rounds down and its height becomes 2000
C11_Witness ==
  /\ pp.pc = "returned"
  /\ pp.imageBuffer.width = 1999
  /\ pp.imageBuffer.height = MAX_IMAGE_DIMENSION + 1
  /\ pp.out.processedBuffer.width = 1998
  /\ pp.out.processedBuffer.height = MAX_IMAGE_DIMENSION

\* a product exactly halfway between two integers: 76 by 2432 is resized to
\* 62 by 2000, where 76 * 2000 / 2432 is 62.5
C11_WitnessHalfway ==
  /\ pp.pc = "returned"
  /\ pp.imageBuffer.width = 76
  /\ pp.imageBuffer.height = 2432
  /\ pp.out.processedBuffer.width = 62
  /\ pp.out.processedBuffer.height = MAX_IMAGE_DIMENSION

\* ------------------------------------------------------------------------
\* Claims about the cache (checked under SpecCache and SpecKey)
\* ------------------------------------------------------------------------

\* C12: when the configured cache size is at most 0, after any sequence of
\* writeCache and readCache calls the store holds what it held before them
\* (nothing) and every readCache call has returned null
C12_DisabledCacheNeverHits ==
  cacheSize <= 0 =>
    /\ cache = <<>>
    /\ \A k \in 1..Len(cacheLog) :
         cacheLog[k].op = "read" => cacheLog[k].ret = Null

\* with size 0, a non-empty result was written and then read with the same
\* arguments
C12_Witness ==
  /\ cacheSize = 0
  /\ Len(cacheLog) >= 2
  /\ cacheLog[1].op = "write"
  /\ cacheLog[1].result # <<>>
  /\ cacheLog[2].op = "read"
  /\ cacheLog[2].args = cacheLog[1].args

\* the characters of a hexadecimal digest
HexChars == {HexDigits[k] : k \in 1..16}

\* C13: calls with the same argument list return the same key; when the
\* arguments joined with U+0000 have at most 200 characters the key is that
\* joined string; when they have more, the key is the SHA-1 digest of the
\* joined string, 40 hexadecimal digits, and not the joined string
C13_KeyOfArguments ==
  LET joined == SimpleKey(gk.args)
  IN /\ \A j, k \in 1..Len(gk.keys) : gk.keys[j] = gk.keys[k]
     /\ \A k \in 1..Len(gk.keys) :
          /\ Len(joined) <= 200 => gk.keys[k] = joined
          /\ Len(joined) > 200 =>
               /\ gk.keys[k] = Sha1Hex(joined)
               /\ Len(gk.keys[k]) = 40
               /\ \A c \in 1..40 : gk.keys[k][c] \in HexChars
               /\ gk.keys[k] # joined

\* two calls with arguments that join to 500 characters both returned the
\* digest 9e83dcc3280079359e7c1721096ff296e2776aaf
C13_Witness ==
  /\ Len(gk.keys) = 2
  /\ Len(SimpleKey(gk.args)) = 500
  /\ gk.keys[1] = gk.keys[2]
  /\ gk.keys[2] =
       <<"9", "e", "8", "3", "d", "c", "c", "3", "2", "8", "0", "0", "7", "9",
         "3", "5", "9", "e", "7", "c", "1", "7", "2", "1", "0", "9", "6", "f",
         "f", "2", "9", "6", "e", "2", "7", "7", "6", "a", "a", "f">>

\* ------------------------------------------------------------------------
\* Further claims about the recognition worker
\* ------------------------------------------------------------------------

\* initializers that have started and not yet run to their end
InitsInProgress ==
  {c \in CallIds : init[c].pc \in {"terminating", "terminateOk", "terminateErr",
                                   "creating", "createOk", "createErr"}}

\* C14 (checked under SpecOcr): under any interleaving of calls at most one
\* initialization (terminate the old worker, create the new one) is in
\* progress at any time, and initPromise is non-null exactly while one is
C14_SingleFlightInit ==
  /\ Cardinality(InitsInProgress) <= 1
  /\ initPromise # 0 <=> InitsInProgress # {}

\* C15 (checked under SpecOcrAll): the worker a recognition runs on is alive
\* from the start of the recognition to its end: no recognition starts on a
\* worker whose termination has begun, no worker is terminated, by a language
\* switch or by terminateWorker, while a recognition runs on it; and no call
\* fails with 'OCR worker not initialized'
C15_ExclusiveWorker ==
  \A c \in CallIds :
    /\ call[c].pc = "recognizing" => wk[call[c].used] = "live"
    /\ call[c].err # "notInitialized"

\* C16 (checked under SpecOcrAll): the language of the OCRResult a call
\* returns is the native code of the worker that performed the call's
\* recognition, mapLanguage of the call's language; stated for the calls whose
\* worker nobody has terminated
C16_LanguageOfRecognizingWorker ==
  \A c \in CallIds :
    (call[c].pc = "returned" /\ wk[call[c].used] = "live") =>
      /\ call[c].language = WorkerLang(call[c].used)
      /\ call[c].language = mapLanguage(call[c].lang)

\* three calls overlap, for eng, jpn and kor: the second call recognized on
\* the jpn worker, which is still alive, and returned language 'kor'
C16_Scenario ==
  /\ call[1].lang = "en"
  /\ call[2].lang = "ja"
  /\ call[3].lang = "ko"
  /\ call[2].pc = "returned"
  /\ call[2].used = 2
  /\ wk[2] = "live"
  /\ call[2].language = "kor"

\* a call takes the fast path while another call's initializer is terminating
\* the worker, and recognizes on that worker
C15_FastPathScenario ==
  \E c, d \in CallIds :
    /\ call[c].pc = "recognizing"
    /\ init[c] = NoInit
    /\ call[c].awaiting = 0
    /\ init[d].pc = "terminating"
    /\ init[d].target = call[c].used

\* ------------------------------------------------------------------------
\* Claims about sequential recognizeImage calls (checked under SpecOcrSeq)
\* ------------------------------------------------------------------------

\* the calls made so far
StartedCalls == {c \in CallIds : call[c].pc # "idle"}

\* the workers createWorker has delivered
WorkersCreated == {w \in CallIds : wk[w] \in {"live", "terminating", "terminated"}}

\* a call is made while a worker for its native code exists, and its
\* initWorker changes nothing: no worker is terminated or created, and worker,
\* currentLang and initPromise stay as they are
FastPathIsNoOp ==
  \A c \in CallIds :
    (/\ call[c].pc = "idle"
     /\ call'[c].pc # "idle"
     /\ worker # 0
     /\ currentLang = mapLanguage(call'[c].lang))
    => /\ worker' = worker
       /\ currentLang' = currentLang
       /\ initPromise' = initPromise
       /\ wk' = wk
       /\ init' = init

\* sequential calls whose languages all map to one native code have created
\* at most one worker, and exactly one once a call got to recognize
OneWorkerForOneNativeCode ==
  (\A c, d \in StartedCalls : mapLanguage(call[c].lang) = mapLanguage(call[d].lang))
    => /\ Cardinality(WorkersCreated) <= 1
       /\ (\E c \in CallIds : call[c].used # 0) => Cardinality(WorkersCreated) = 1

\* the native code of a language by the language map: the code's entry in
\* the table, and eng for every code without one
NativeCode(lang) == IF lang \in DOMAIN LANG_MAP THEN LANG_MAP[lang] ELSE "eng"

\* C17: initWorker(lang) is a no-op when a worker exists for
\* mapLanguage(lang), hence sequential recognizeImage calls whose languages
\* all map to the same native code ('zh' and 'zh-Hans', or any unmapped code
\* and 'en') create exactly one worker in total: at most one has been
\* created, and exactly one once a call got to recognize
C17_OneWorkerForSameNativeCode ==
  (\A c, d \in StartedCalls : NativeCode(call[c].lang) = NativeCode(call[d].lang))
    => /\ Cardinality(WorkersCreated) <= 1
       /\ (\E c \in CallIds : call[c].used # 0) => Cardinality(WorkersCreated) = 1

\* the part of C17 that the code keeps: initWorker(lang) is a no-op when a
\* worker exists for mapLanguage(lang) (it neither terminates nor creates a
\* worker and leaves worker, currentLang and initPromise unchanged), so
\* sequential recognizeImage calls for which mapLanguage returns one and the
\* same value create exactly one worker
C17_SameNativeCodeReusesWorker ==
  [][FastPathIsNoOp]_vars /\ []OneWorkerForOneNativeCode

\* 'en' and then 'constructor', an unmapped code: the second call finds the
\* eng worker, has it terminated and has a second worker created
C17_Scenario ==
  /\ call[1].lang = "en"
  /\ call[1].pc = "returned"
  /\ call[1].used = 1
  /\ call[2].lang = "constructor"
  /\ NativeCode("constructor") = "eng"
  /\ mapLanguage("constructor") # "eng"
  /\ wk[1] = "terminated"
  /\ wk[2] = "live"

\* three sequential calls, 'zh', 'zh-Hans', 'zh', all returned, all on the
\* worker the first call created; no other worker was ever asked for
C17_Witness ==
  /\ call[1].lang = "zh"
  /\ call[2].lang = "zh-Hans"
  /\ call[3].lang = "zh"
  /\ \A c \in CallIds : c <= 3 => call[c].pc = "returned" /\ call[c].used = 1
  /\ \A w \in CallIds : w # 1 => wk[w] = "unborn"
  /\ wk[1] = "live"

\* the same with an unmapped code followed by 'en'
C17_WitnessUnmapped ==
  /\ call[1].lang = "nl"
  /\ call[2].lang = "en"
  /\ call[2].pc = "returned"
  /\ call[2].used = 1
  /\ wk[2] = "unborn"

\* ------------------------------------------------------------------------
\* Claims about the rescale of translated blocks (checked under SpecRescale)
\* ------------------------------------------------------------------------

\* the blocks whose translation call succeeded and whose TranslatedBlock has
\* been emitted
EmittedOk ==
  {k \in 1..Len(results) : callState[k] = "ok"}

\* r is v / (num / den) rounded to an integer
DividedAndRounded(r, v, num, den) == NearestInteger(r, v * den, num)

\* C18: for a block whose translation call succeeds, the emitted
\* TranslatedBlock has the source block's text, confidence and baseline; when
\* scale is 1 its bbox, fontSize and lineHeight are the source block's too;
\* when scale is not 1 each of bbox.x0, y0, x1, y1, fontSize and lineHeight is
\* round(value / scale), an integer nearest to the quotient; it has no field
\* besides these and translatedText
C18_SuccessBlockRescaled ==
  \A k \in EmittedOk :
    LET src == blocks[k]
        out == results[k]
    IN /\ DOMAIN out = DOMAIN src \cup {"translatedText"}
       /\ out.translatedText = TranslateWithPivot(fromLang, toLang, src.text)
       /\ out.text = src.text
       /\ out.confidence = src.confidence
       /\ out.baseline = src.baseline
       /\ scale.num = scale.den =>
            /\ out.bbox = src.bbox
            /\ out.fontSize = src.fontSize
            /\ out.lineHeight = src.lineHeight
       /\ scale.num # scale.den =>
            /\ DividedAndRounded(out.bbox.x0, src.bbox.x0, scale.num, scale.den)
            /\ DividedAndRounded(out.bbox.y0, src.bbox.y0, scale.num, scale.den)
            /\ DividedAndRounded(out.bbox.x1, src.bbox.x1, scale.num, scale.den)
            /\ DividedAndRounded(out.bbox.y1, src.bbox.y1, scale.num, scale.den)
            /\ DividedAndRounded(out.fontSize, src.fontSize, scale.num, scale.den)
            /\ DividedAndRounded(out.lineHeight, src.lineHeight,
                                 scale.num, scale.den)

\* scale 2000/3000 maps bbox {10,10,110,40} to {15,15,165,60}, fontSize 23 to
\* 35 and lineHeight 30 to 45, and leaves the reported baseline alone
C18_Witness ==
  /\ tbPc = "returned"
  /\ scale = [num |-> 2000, den |-> 3000]
  /\ callState = <<"ok">>
  /\ blocks[1].bbox = [x0 |-> 10, y0 |-> 10, x1 |-> 110, y1 |-> 40]
  /\ blocks[1].baseline = SomeBaseline
  /\ results[1].bbox = [x0 |-> 15, y0 |-> 15, x1 |-> 165, y1 |-> 60]
  /\ results[1].fontSize = 35
  /\ results[1].lineHeight = 45
  /\ results[1].baseline = SomeBaseline

\* the same block at scale 1
C18_WitnessScaleOne ==
  /\ tbPc = "returned"
  /\ scale = ScaleOne
  /\ callState = <<"ok">>
  /\ blocks[1].bbox = [x0 |-> 10, y0 |-> 10, x1 |-> 110, y1 |-> 40]
  /\ results[1].bbox = blocks[1].bbox
  /\ results[1].fontSize = 23
  /\ results[1].lineHeight = 30

\* a box with x1 > x0 and y1 > y0
NonEmptyBox(bbox) == bbox.x1 > bbox.x0 /\ bbox.y1 > bbox.y0

\* C19: for every block with integer bbox with x1 > x0 and y1 > y0 and every
\* scale 2000 / longestSide with longestSide > 2000, the rescaled
\* TranslatedBlock's bbox still has x1 > x0 and y1 > y0
C19_RescaleKeepsBoxNonEmpty ==
  \A k \in EmittedOk :
    (/\ NonEmptyBox(blocks[k].bbox)
     /\ scale.num = MAX_IMAGE_DIMENSION
     /\ scale.den > MAX_IMAGE_DIMENSION)
    => NonEmptyBox(results[k].bbox)

\* a box one pixel wide and high at scale 2000/2001, where dividing adds the
\* least: 999 and 1000 become 999 and 1001
C19_Witness ==
  /\ tbPc = "returned"
  /\ scale = [num |-> 2000, den |-> 2001]
  /\ callState = <<"ok">>
  /\ blocks[1].bbox = [x0 |-> 10, y0 |-> 999, x1 |-> 11, y1 |-> 1000]
  /\ results[1].bbox = [x0 |-> 10, y0 |-> 999, x1 |-> 11, y1 |-> 1001]

\* a quotient exactly halfway between two integers: at scale 2000/2410 the
\* right edge 100 is 120.5 in the original image and becomes 120, while at
\* scale 2000/3000 the edge 11 is 16.5 and becomes 17
C18_WitnessHalfway ==
  /\ tbPc = "returned"
  /\ callState = <<"ok">>
  /\ \/ /\ scale = [num |-> 2000, den |-> 2410]
        /\ blocks[1].bbox.x1 = 100
        /\ results[1].bbox.x1 = 120
     \/ /\ scale = [num |-> 2000, den |-> 3000]
        /\ blocks[1].bbox.y0 = 11
        /\ results[1].bbox.y0 = 17

\* lineHeight = bbox.y1 - bbox.y0 and fontSize >= 1
LineHeightAndFontSizeOk(b) ==
  /\ b.lineHeight = b.bbox.y1 - b.bbox.y0
  /\ b.fontSize >= 1

\* C20: every TextBlock and every TranslatedBlock, rescaled or not, has
\* lineHeight = bbox.y1 - bbox.y0 and fontSize >= 1
C20_LineHeightAndFontSize ==
  /\ \A k \in 1..Len(blocks) : LineHeightAndFontSizeOk(blocks[k])
  /\ \A k \in 1..Len(results) : LineHeightAndFontSizeOk(results[k])

\* the part of C20 that the code keeps: every TextBlock, and every
\* TranslatedBlock that was not rescaled, has lineHeight = bbox.y1 - bbox.y0;
\* every block has fontSize >= 12
C20_HoldsWithoutRescale ==
  /\ \A k \in 1..Len(blocks) :
       LineHeightAndFontSizeOk(blocks[k]) /\ blocks[k].fontSize >= MIN_OCR_FONT_SIZE
  /\ \A k \in 1..Len(results) :
       /\ results[k].fontSize >= MIN_OCR_FONT_SIZE
       /\ (callState[k] = "failed" \/ scale.num = scale.den) =>
            LineHeightAndFontSizeOk(results[k])

\* scale 2000/3000, y0 = 11, y1 = 40: lineHeight 29 becomes 44 while the box
\* becomes 17..60, 43 high
C20_Scenario ==
  /\ tbPc = "returned"
  /\ scale = [num |-> 2000, den |-> 3000]
  /\ callState = <<"ok">>
  /\ blocks[1].bbox.y0 = 11
  /\ blocks[1].bbox.y1 = 40
  /\ blocks[1].lineHeight = 29
  /\ results[1].bbox.y0 = 17
  /\ results[1].bbox.y1 = 60
  /\ results[1].lineHeight = 44

\* ------------------------------------------------------------------------
\* Claims about the renderer (checked under SpecRender)
\* ------------------------------------------------------------------------

\* calculateFontSize has returned for the block
FontSized == rs.pc \in {"sized", "drawn"}

\* len(text) * fontSize * 0.6 exceeds blockWidth
EstimatedWidthExceeds ==
  Len(rs.block.translatedText) * rs.block.fontSize * 6 > rs.blockWidth * 10

\* the returned font size is at least 8
AtLeastFloor == ~DblLess(rs.adjustedFontSize, DblOfInt(8))

\* the returned font size is strictly less than the original fontSize
StrictlyLessThanOriginal ==
  DblLess(rs.adjustedFontSize, DblOfInt(rs.block.fontSize))

\* C21 as stated: calculateFontSize returns a value >= 8, and whenever the
\* estimated width len(text) * fontSize * 0.6 exceeds blockWidth the returned
\* font size is strictly less than the original fontSize
C21_AsStated ==
  FontSized =>
    /\ AtLeastFloor
    /\ EstimatedWidthExceeds => StrictlyLessThanOriginal

\* C21: calculateFontSize returns a value >= 8; whenever the estimated width
\* len(text) * fontSize * 0.6 exceeds blockWidth and the original fontSize is
\* above 8 the returned font size is strictly less than the original
\* fontSize; when the original fontSize is 8 or less the returned size is 8
C21_FontSizeFitted ==
  FontSized =>
    /\ AtLeastFloor
    /\ (EstimatedWidthExceeds /\ rs.block.fontSize > MIN_RENDER_FONT_SIZE)
         => StrictlyLessThanOriginal
    /\ rs.block.fontSize <= MIN_RENDER_FONT_SIZE =>
         rs.adjustedFontSize = DblOfInt(8)

\* five characters at font size 35 in a block 100 wide and 45 high: the
\* estimated width is 105 and the size returned is 33
C21_Witness ==
  /\ FontSized
  /\ Len(rs.block.translatedText) = 5
  /\ rs.block.fontSize = 35
  /\ rs.blockWidth = 100
  /\ rs.blockHeight = 45
  /\ EstimatedWidthExceeds
  /\ rs.adjustedFontSize = DblOfInt(33)

\* thirty characters at font size 8 in a block 100 wide: the size returned
\* is 8, the original
C21_Scenario ==
  /\ FontSized
  /\ Len(rs.block.translatedText) = 30
  /\ rs.block.fontSize = 8
  /\ rs.blockWidth = 100
  /\ EstimatedWidthExceeds
  /\ rs.adjustedFontSize = DblOfInt(8)

\* floor(blockWidth / (fontSize * 0.6)) for the adjusted font size
FittingChars == MaxChars(rs.blockWidth, rs.adjustedFontSize)

\* the drawn string is a prefix of the text followed by one ellipsis marker
PrefixAndMarker ==
  \E n \in 0..Len(rs.block.translatedText) :
    rs.drawn = SubSeq(rs.block.translatedText, 1, n) \o EllipsisMarker

\* C22: the string drawn by truncateText has at most
\* floor(blockWidth / (fontSize * 0.6)) characters including the ellipsis
\* marker; it is the unchanged text when the text already fits, and otherwise
\* a prefix of the text followed by one ellipsis marker
C22_TruncatedTextFits ==
  rs.pc = "drawn" =>
    /\ Len(rs.drawn) <= FittingChars
    /\ Len(rs.block.translatedText) <= FittingChars =>
         rs.drawn = rs.block.translatedText
    /\ Len(rs.block.translatedText) > FittingChars => PrefixAndMarker

\* the part of C22 that the code keeps: a text that fits is drawn unchanged,
\* and any other is drawn as its first max(0, maxChars - 1) characters
\* followed by one ellipsis marker
C22_HoldsExceptLength ==
  rs.pc = "drawn" =>
    /\ Len(rs.block.translatedText) <= FittingChars =>
         rs.drawn = rs.block.translatedText
    /\ Len(rs.block.translatedText) > FittingChars =>
         rs.drawn =
           SubSeq(rs.block.translatedText, 1, Max(0, FittingChars - 1))
             \o EllipsisMarker

\* a block one pixel wide: no character fits, and the marker is drawn
C22_ScenarioNoRoom ==
  /\ rs.pc = "drawn"
  /\ rs.blockWidth = 1
  /\ FittingChars = 0
  /\ rs.drawn = EllipsisMarker

\* a block 50 wide at font size 8: ten characters fit, and the twelve
\* characters of the text are drawn as nine of them and the marker
C22_ScenarioTruncated ==
  /\ rs.pc = "drawn"
  /\ rs.blockWidth = 50
  /\ rs.adjustedFontSize = DblOfInt(8)
  /\ FittingChars = 10
  /\ Len(rs.block.translatedText) = 12
  /\ rs.drawn = SubSeq(rs.block.translatedText, 1, 9) \o EllipsisMarker
  /\ Len(rs.drawn) > FittingChars

\* ------------------------------------------------------------------------
\* Claims about reading back what was written (checked under SpecCache)
\* ------------------------------------------------------------------------

\* positions of the writeCache calls made before call r with the arguments
\* args
WritesBefore(r, args) ==
  {w \in 1..(r - 1) : cacheLog[w].op = "write" /\ cacheLog[w].args = args}

\* the tuples written before call r
TuplesWrittenBefore(r) ==
  {cacheLog[w].args : w \in {v \in 1..(r - 1) : cacheLog[v].op = "write"}}

\* no entry can have been evicted before call r: the tuples written are no
\* more than the capacity
NothingEvictedBefore(r) == Cardinality(TuplesWrittenBefore(r)) <= cacheSize

\* the result of the last writeCache call before call r with the arguments
\* args
LastWritten(r, args) ==
  cacheLog[CHOOSE w \in WritesBefore(r, args) :
             \A v \in WritesBefore(r, args) : v <= w].result

\* C23: with capacity > 0, a readCache with an argument tuple equal to that
\* of an earlier writeCache(result, args) returns exactly result, for every
\* string result, as long as the entry has not been evicted; and a readCache
\* for a tuple that was never written returns null
C23_ReadsBackWhatWasWritten ==
  cacheSize > 0 =>
    \A r \in 1..Len(cacheLog) :
      cacheLog[r].op = "read" =>
        /\ (WritesBefore(r, cacheLog[r].args) # {} /\ NothingEvictedBefore(r))
             => cacheLog[r].ret = Value(LastWritten(r, cacheLog[r].args))
        /\ WritesBefore(r, cacheLog[r].args) = {} => cacheLog[r].ret = Null

\* the tuples written before call r whose key is that of args
SameKeyWrittenBefore(r, args) ==
  {t \in TuplesWrittenBefore(r) : GetCacheKey(t) = GetCacheKey(args)}

\* the part of C23 that the code keeps: a non-empty result is read back with
\* the tuple it was written with while nothing can have been evicted, and a
\* tuple whose key no written tuple has reads null, provided no other tuple
\* with the same key was written
C23_HoldsForNonEmptyAndDistinctKeys ==
  cacheSize > 0 =>
    \A r \in 1..Len(cacheLog) :
      cacheLog[r].op = "read" =>
        /\ (/\ WritesBefore(r, cacheLog[r].args) # {}
            /\ NothingEvictedBefore(r)
            /\ SameKeyWrittenBefore(r, cacheLog[r].args) = {cacheLog[r].args}
            /\ LastWritten(r, cacheLog[r].args) # <<>>)
             => cacheLog[r].ret = Value(LastWritten(r, cacheLog[r].args))
        /\ SameKeyWrittenBefore(r, cacheLog[r].args) = {}
             => cacheLog[r].ret = Null

\* writeCache('', args) and then readCache(args): null is returned
C23_ScenarioEmptyString ==
  /\ cacheSize > 0
  /\ Len(cacheLog) = 2
  /\ cacheLog[1].op = "write"
  /\ cacheLog[1].result = <<>>
  /\ cacheLog[2].op = "read"
  /\ cacheLog[2].args = cacheLog[1].args
  /\ cacheLog[2].ret = Null

\* writeCache('hola', ['en', 'es', 'h\0i', false]) and then
\* readCache(['en', 'es\0h', 'i', false]), a tuple never written: 'hola' is
\* returned
C23_ScenarioSharedKey ==
  /\ cacheSize > 0
  /\ Len(cacheLog) = 2
  /\ cacheLog[1].op = "write"
  /\ cacheLog[1].args[3] = Str(<<"h", NUL, "i">>)
  /\ cacheLog[1].result = <<"h", "o", "l", "a">>
  /\ cacheLog[2].op = "read"
  /\ cacheLog[2].args[2] = Str(<<"e", "s", NUL, "h">>)
  /\ cacheLog[2].ret = Value(<<"h", "o", "l", "a">>)

====
